---- MODULE Spec2Model ----
(***************************************************************************)
(* Model of the mitra-bot web client: the conversation store kept in       *)
(* localStorage (class API), the chat engine (class Chat) and the          *)
(* conversation actions of class UI.  One action is one browser task: an   *)
(* event handler together with the promise continuations it runs before    *)
(* the next event is dispatched.                                           *)
(***************************************************************************)
EXTENDS Integers, Sequences, FiniteSets, TLC

\* ------------------------------------------------------------------------
\* Bounds of the model
\* ------------------------------------------------------------------------
MaxSends == 2
MaxConvs == 2
MaxClock == 1
MaxSteps == 5
MaxTurnSteps == 5
MaxMessages == 4
MaxListConvs == 17
MaxListSteps == 2
MaxStampSteps == 6
MaxAuthSteps == 5
MaxRawSteps == 3
MaxTextLen == 3
MaxFormatSteps == 2

\* ------------------------------------------------------------------------
\* Program constants
\* ------------------------------------------------------------------------
MAX_MESSAGE_LENGTH == 3000
TitleLimit == 50
PreviewLimit == 100
RecentLimit == 15

\* ------------------------------------------------------------------------
\* Values.  A text is a sequence of one-character strings.  An optional
\* value (null / undefined in the program) is a sequence of length 0 or 1.
\* ------------------------------------------------------------------------
None == << >>
Some(v) == << v >>

Rep(ch, n) == [i \in 1..n |-> ch]

\* String.prototype.substring(begin, end): 0-based, end exclusive, clamped.
Min(a, b) == IF a < b THEN a ELSE b
Substring(s, begin, end) == SubSeq(s, begin + 1, Min(end, Len(s)))

IsSpace(ch) == ch \in {" ", "\n", "\t"}

RECURSIVE TrimStart(_)
TrimStart(s) ==
    IF s # << >> /\ IsSpace(Head(s)) THEN TrimStart(Tail(s)) ELSE s

RECURSIVE TrimEnd(_)
TrimEnd(s) ==
    IF s # << >> /\ IsSpace(s[Len(s)]) THEN TrimEnd(SubSeq(s, 1, Len(s) - 1)) ELSE s

\* String.prototype.trim()
Trim(s) == TrimEnd(TrimStart(s))

\* Property read: a missing key reads as undefined.
Get(obj, f) == IF f \in DOMAIN obj THEN obj[f] ELSE None

\* Property write: creates the key when the object lacks it.
SetField(obj, f, v) ==
    [g \in (DOMAIN obj) \cup {f} |-> IF g = f THEN v ELSE obj[g]]

\* Keys whose value may be undefined; JSON.stringify omits such a key.
ConvOptional == {"lastMessage", "pinned", "session_id"}
MsgOptional == {"confidence", "sources"}

DropUndefined(obj, optional) ==
    [g \in {f \in DOMAIN obj : ~(f \in optional /\ obj[f] = None)} |-> obj[g]]

StringifyMessage(m) == DropUndefined(m, MsgOptional)

\* JSON.parse(JSON.stringify(c)) of one conversation object.
StringifyConversation(c) ==
    DropUndefined(
        [c EXCEPT !.messages = [i \in 1..Len(c.messages) |-> StringifyMessage(c.messages[i])]],
        ConvOptional)

\* ------------------------------------------------------------------------
\* Inputs
\* ------------------------------------------------------------------------
TShort == << "5", "+", "5" >>
TPadded == << " ", "h", "i", " " >>
TBlank == << " ", " " >>
T50 == Rep("b", TitleLimit)
T51 == Rep("c", TitleLimit + 1)
TOversize == Rep("a", MAX_MESSAGE_LENGTH + 1)

THello == << "h", "i" >>

\* Texts typed into the textarea, and the prompts of the prompt cards.
Texts == { TBlank, TPadded, T50, T51, TOversize }
PromptCards == { THello, TShort }

RLong == Rep("r", PreviewLimit + 1)

\* Bodies the gateway can answer with on success.
Responses ==
    { [response |-> Some(<< "1", "0" >>), confidence |-> Some(9), sources |-> Some(<< "doc" >>)],
      [response |-> None, confidence |-> None, sources |-> None] }
AllResponses ==
    Responses \cup
    { [response |-> Some(RLong), confidence |-> None, sources |-> None],
      [response |-> Some(<< >>), confidence |-> None, sources |-> None] }

ConvIds == 1..MaxConvs

\* ------------------------------------------------------------------------
\* State
\* ------------------------------------------------------------------------
VARIABLES
    store,                \* localStorage[CONVERSATIONS_STORAGE_KEY], parsed
    currentConversation,  \* Chat.currentConversation (None = null)
    aliased,              \* currentConversation.messages is the array Chat.messages
    messages,             \* Chat.messages
    sessionId,            \* Chat.sessionId (0 = null)
    isTyping,             \* Chat.isTyping
    inputValue,           \* #chatInput.value
    sendBtnDisabled,      \* #sendBtn.disabled
    starIcon,             \* #starBtn icon is the solid star
    pinnedList,           \* ids rendered in #pinnedList
    recentList,           \* ids rendered in #recentList
    inflight,             \* gateway chat requests not yet settled (indices of calls)
    calls,                \* every gateway chat request made so far
    toast,                \* type of the toast shown by the last step (None = none)
    initPc,               \* progress of initializeApp ("left": the page was left)
    nextConv,             \* conversation ids generated so far
    now,                  \* Date.now()
    steps,                \* tasks run since the page was loaded
    horizon,              \* number of tasks the model follows
    lastSave,             \* the saveConversation call of the last step (None = none)
    deleted,              \* ids deleteConversation has been called with
    auth,                 \* the Auth object, its localStorage keys and the location
    element,              \* the message element addMessage renders for a text
    kept,                 \* a conversations item written by something else than
                          \* saveConversation, and the error the last call on it threw
    lastOp                \* the handler that ran in the last step

vars == << store, currentConversation, aliased, messages, sessionId, isTyping,
           inputValue, sendBtnDisabled, starIcon, pinnedList, recentList,
           inflight, calls, toast, initPc, nextConv, now,
           steps, horizon, lastSave, deleted, auth, element, kept, lastOp >>

\* ------------------------------------------------------------------------
\* API: the conversation store
\* ------------------------------------------------------------------------

\* Array.prototype.findIndex(c => c.id === id), 1-based; 0 when absent.
FindIndex(convs, id) ==
    IF \E i \in 1..Len(convs) : convs[i].id = id
    THEN CHOOSE i \in 1..Len(convs) :
            /\ convs[i].id = id
            /\ \A j \in 1..(i - 1) : convs[j].id # id
    ELSE 0

\* Array.prototype.find(c => c.id === id) as an optional value.
Find(convs, id) ==
    IF FindIndex(convs, id) = 0 THEN None ELSE Some(convs[FindIndex(convs, id)])

\* localStorage.setItem(key, JSON.stringify(conversations)) and the parse of
\* the next getConversations().
Persist(convs) == [i \in 1..Len(convs) |-> StringifyConversation(convs[i])]

SaveAlwaysUnshift(convs, conversation) ==
    Persist(<< conversation >> \o convs)

SaveAppendsNew(convs, conversation) ==
    IF FindIndex(convs, conversation.id) # 0
    THEN Persist([convs EXCEPT ![FindIndex(convs, conversation.id)] = conversation])
    ELSE Persist(convs \o << conversation >>)

SaveDropsMessages(convs, conversation) ==
    IF FindIndex(convs, conversation.id) # 0
    THEN Persist([convs EXCEPT ![FindIndex(convs, conversation.id)] =
                    [conversation EXCEPT !.messages = << >>]])
    ELSE Persist(<< [conversation EXCEPT !.messages = << >>] >> \o convs)

SaveMovesToFront(convs, conversation) ==
    Persist(<< conversation >> \o SelectSeq(convs, LAMBDA c : c.id # conversation.id))

\* API.saveConversation
SaveConversation(convs, conversation) ==
    LET index == FindIndex(convs, conversation.id)
    IN  IF index # 0
        THEN Persist([convs EXCEPT ![index] = conversation])
        ELSE Persist(<< conversation >> \o convs)

DeleteDropsFollowing(convs, id) ==
    IF FindIndex(convs, id) = 0 THEN Persist(convs)
    ELSE Persist(SubSeq(convs, 1, FindIndex(convs, id) - 1))

\* API.deleteConversation
DeleteConversation(convs, id) ==
    Persist(SelectSeq(convs, LAMBDA c : c.id # id))

\* ------------------------------------------------------------------------
\* Chat: pure parts
\* ------------------------------------------------------------------------
DefaultTitle ==
    << "N", "e", "w", " ", "c", "o", "n", "v", "e", "r", "s", "a", "t", "i", "o", "n" >>

Ellipsis == << ".", ".", "." >>

TitleOffByOne(userMessage) ==
    Substring(userMessage, 0, TitleLimit) \o
        (IF Len(userMessage) >= TitleLimit THEN Ellipsis ELSE << >>)

\* userMessage.substring(0, 50) + (userMessage.length > 50 ? '...' : '')
TitleOf(userMessage) ==
    Substring(userMessage, 0, TitleLimit) \o
        (IF Len(userMessage) > TitleLimit THEN Ellipsis ELSE << >>)

\* aiResponse?.substring(0, 100)
PreviewOf(aiResponse) ==
    IF aiResponse = None THEN None ELSE Some(Substring(aiResponse[1], 0, PreviewLimit))

\* Truthiness of an optional string and of an optional boolean.
Truthy(opt) == opt # None /\ opt[1] # << >>
TruthyFlag(opt) == opt # None /\ opt[1]

Ids(convs) == [i \in 1..Len(convs) |-> convs[i].id]

\* The partition rendered by Chat.loadConversationsList.
PinnedPartition(convs) == SelectSeq(convs, LAMBDA c : TruthyFlag(Get(c, "pinned")))

RecentIgnoresPins(convs) == SubSeq(convs, 1, Min(RecentLimit, Len(convs)))

RecentPartition(convs) ==
    SubSeq(SelectSeq(convs, LAMBDA c : ~TruthyFlag(Get(c, "pinned"))), 1,
           Min(RecentLimit, Len(SelectSeq(convs, LAMBDA c : ~TruthyFlag(Get(c, "pinned"))))))

Range(s) == {s[i] : i \in 1..Len(s)}
Rendered == Range(pinnedList) \cup Range(recentList)

\* API.generateSessionId: an id no earlier call has returned.  An id held
\* nowhere any more cannot be compared with anything, so the least id above
\* every id still held (the engine's and those of the requests made) stands
\* for it.
MaxOf(set) == CHOOSE m \in set : \A n \in set : n <= m
GenerateSessionId(held) ==
    1 + MaxOf({held} \cup {calls[i].session_id : i \in 1..Len(calls)})

\* The engine's mutable fields, threaded through the steps of one handler.
Chat == [cc |-> currentConversation, aliased |-> aliased, msgs |-> messages,
         sid |-> sessionId, nextConv |-> nextConv]

\* Chat.startNewConversation
StartNewConversation(S, t) ==
    [S EXCEPT !.cc = Some([id |-> S.nextConv + 1, title |-> DefaultTitle,
                           messages |-> << >>, created_at |-> t,
                           updated_at |-> t, starred |-> FALSE]),
              !.aliased = FALSE,
              !.msgs = << >>,
              !.sid = GenerateSessionId(S.sid),
              !.nextConv = S.nextConv + 1]

\* Chat.addMessage: push on the array Chat.messages; the active conversation
\* sees the push when its messages field is that same array.
AddMessage(S, message) ==
    [S EXCEPT !.msgs = Append(S.msgs, message),
              !.cc = IF S.cc # None /\ S.aliased
                     THEN Some([S.cc[1] EXCEPT !.messages = Append(S.msgs, message)])
                     ELSE S.cc]

UpdateTitleAlways(S, userMessage, aiResponse, t) ==
    LET S1 == IF S.cc = None THEN StartNewConversation(S, t) ELSE S
        c2 == [SetField([S1.cc[1] EXCEPT !.title = TitleOf(userMessage)],
                        "lastMessage", PreviewOf(aiResponse))
                 EXCEPT !.messages = S1.msgs, !.updated_at = t]
    IN  [S1 EXCEPT !.cc = Some(c2), !.aliased = TRUE]

UpdateRenamesConversation(S, userMessage, aiResponse, t) ==
    LET S1 == IF S.cc = None THEN StartNewConversation(S, t) ELSE S
        c0 == S1.cc[1]
        c1 == IF Len(S1.msgs) = 2 THEN [c0 EXCEPT !.title = TitleOf(userMessage)] ELSE c0
        c2 == [SetField(c1, "lastMessage", PreviewOf(aiResponse))
                 EXCEPT !.messages = S1.msgs, !.updated_at = t, !.id = c0.id + MaxConvs]
    IN  [S1 EXCEPT !.cc = Some(c2), !.aliased = TRUE]

UpdateKeepsStamp(S, userMessage, aiResponse, t) ==
    LET S1 == IF S.cc = None THEN StartNewConversation(S, t) ELSE S
        c0 == S1.cc[1]
        c1 == IF Len(S1.msgs) = 2 THEN [c0 EXCEPT !.title = TitleOf(userMessage)] ELSE c0
        c2 == [SetField(c1, "lastMessage", PreviewOf(aiResponse))
                 EXCEPT !.messages = S1.msgs]
    IN  [S1 EXCEPT !.cc = Some(c2), !.aliased = TRUE]

\* Chat.updateConversation up to the call of saveConversation
UpdateConversation(S, userMessage, aiResponse, t) ==
    LET S1 == IF S.cc = None THEN StartNewConversation(S, t) ELSE S
        c0 == S1.cc[1]
        c1 == IF Len(S1.msgs) = 2 THEN [c0 EXCEPT !.title = TitleOf(userMessage)] ELSE c0
        c2 == [SetField(c1, "lastMessage", PreviewOf(aiResponse))
                 EXCEPT !.messages = S1.msgs, !.updated_at = t]
    IN  [S1 EXCEPT !.cc = Some(c2), !.aliased = TRUE]

LoadNoDuplicate(S, convs, id) ==
    IF Find(convs, id) = None THEN S
    ELSE [S EXCEPT !.cc = Find(convs, id), !.aliased = TRUE,
                   !.msgs = Find(convs, id)[1].messages,
                   !.sid = GenerateSessionId(S.sid)]

LoadMissingResets(S, convs, id) ==
    LET found == Find(convs, id)
        stored == found[1].messages
    IN  IF found = None
        THEN [S EXCEPT !.msgs = << >>, !.sid = GenerateSessionId(S.sid)]
        ELSE [S EXCEPT !.cc = Some([found[1] EXCEPT !.messages = stored \o stored]),
                       !.aliased = TRUE,
                       !.msgs = stored \o stored,
                       !.sid = GenerateSessionId(S.sid)]

\* Chat.loadConversation.  forEach fixes its range before the first call, and
\* each addMessage pushes on the array being iterated: the stored messages
\* end up twice in Chat.messages, which is also conv.messages.
LoadConversation(S, convs, id) ==
    LET found == Find(convs, id)
        conv == found[1]
        hasArray == "messages" \in DOMAIN conv
        stored == IF hasArray THEN conv.messages ELSE << >>
        hasSession == Get(conv, "session_id") # None
    IN  IF found = None THEN S
        ELSE [S EXCEPT !.cc = IF hasArray
                              THEN Some([conv EXCEPT !.messages = stored \o stored])
                              ELSE found,
                       !.aliased = hasArray,
                       !.msgs = stored \o stored,
                       !.sid = IF hasSession THEN conv.session_id[1]
                              ELSE GenerateSessionId(S.sid)]

\* The buffer a load would build stays within the model's bound.
LoadFits(convs, id) ==
    Find(convs, id) # None => 2 * Len(Get(Find(convs, id)[1], "messages")) <= MaxMessages

\* Assignment of the engine's fields at the end of a handler.
SetChat(S) ==
    /\ currentConversation' = S.cc
    /\ aliased' = S.aliased
    /\ messages' = S.msgs
    /\ sessionId' = S.sid
    /\ nextConv' = S.nextConv

\* Chat.loadConversationsList.  The pinned section is hidden when no
\* conversation is pinned: pinnedList holds the items the user can see.
RenderLists(convs) ==
    /\ pinnedList' = Ids(PinnedPartition(convs))
    /\ recentList' = Ids(RecentPartition(convs))

\* ------------------------------------------------------------------------
\* The conversations item as a page may find it
\* ------------------------------------------------------------------------

\* An element of a stored array: null or an object.
NullEntry == [type |-> "null", conv |-> [id |-> 0]]
ObjectEntry(c) == [type |-> "object", conv |-> c]

\* The item: "absent" (getItem returns null), "text" (not JSON), or the JSON
\* of null, of an object or of an array with the given elements.
Item(kind, entries) == [kind |-> kind, entries |-> entries]

\* Completion of a call: the value returned or the error thrown.
Returned(v) == [failure |-> None, value |-> v]
Thrown(e) == [failure |-> Some(e), value |-> 0]

\* API.getConversations
GetConversations(item) ==
    IF item.kind = "absent" THEN Returned(Item("array", << >>))
    ELSE IF item.kind = "text" THEN Thrown("SyntaxError")
    ELSE Returned(item)

IsNull(e) == e.type = "null"

\* Least index of a null element; 0 when there is none.
FirstNull(entries) ==
    IF \E i \in 1..Len(entries) : IsNull(entries[i])
    THEN CHOOSE i \in 1..Len(entries) :
            /\ IsNull(entries[i])
            /\ \A j \in 1..(i - 1) : ~IsNull(entries[j])
    ELSE 0

\* Least index of an object with the id; 0 when there is none.
FirstWithId(entries, id) ==
    IF \E i \in 1..Len(entries) : ~IsNull(entries[i]) /\ entries[i].conv.id = id
    THEN CHOOSE i \in 1..Len(entries) :
            /\ ~IsNull(entries[i]) /\ entries[i].conv.id = id
            /\ \A j \in 1..(i - 1) : IsNull(entries[j]) \/ entries[j].conv.id # id
    ELSE 0

\* The objects of an array, in order.
Objects(entries) ==
    LET objs == SelectSeq(entries, LAMBDA e : ~IsNull(e))
    IN  [i \in 1..Len(objs) |-> objs[i].conv]

\* conversations.findIndex(c => c.id === id) and conversations.find(...) on
\* a parsed value: the method is missing on a value that is no array, and
\* the callback reads a property of null when it comes to a null element.
FindIndexIn(value, id) ==
    LET hit == FirstWithId(value.entries, id)
        nul == FirstNull(value.entries)
    IN  IF value.kind # "array" THEN Thrown("TypeError")
        ELSE IF nul # 0 /\ (hit = 0 \/ nul < hit) THEN Thrown("TypeError")
        ELSE Returned(hit)

\* conversations.filter(c => c.pinned) and filter(c => !c.pinned)
FilterIn(value) ==
    IF value.kind # "array" THEN Thrown("TypeError")
    ELSE IF FirstNull(value.entries) # 0 THEN Thrown("TypeError")
    ELSE Returned(Objects(value.entries))

\* API.saveConversation on the item: the item it leaves.
SaveIntoItem(item, conversation) ==
    LET got == GetConversations(item)
        index == FindIndexIn(got.value, conversation.id)
        entry == ObjectEntry(StringifyConversation(conversation))
    IN  IF got.failure # None THEN [failure |-> got.failure, item |-> item]
        ELSE IF index.failure # None THEN [failure |-> index.failure, item |-> item]
        ELSE [failure |-> None,
              item |-> Item("array",
                            IF index.value # 0
                            THEN [got.value.entries EXCEPT ![index.value] = entry]
                            ELSE << entry >> \o got.value.entries)]

\* Chat.loadConversationsList on the item: the conversations it renders.
ListFromItem(item) ==
    LET got == GetConversations(item)
    IN  IF got.failure # None THEN got ELSE FilterIn(got.value)

\* Chat.loadConversation on the item: the conversation found, if any.
FindInItem(item, id) ==
    LET got == GetConversations(item)
        index == FindIndexIn(got.value, id)
    IN  IF got.failure # None THEN got
        ELSE IF index.failure # None THEN index
        ELSE Returned(IF index.value = 0 THEN << >>
                      ELSE << got.value.entries[index.value].conv >>)

NoRaw == [item |-> Item("absent", << >>), failure |-> None]

\* ------------------------------------------------------------------------
\* The message formatter
\* ------------------------------------------------------------------------
\* A string is a sequence of characters; the markup the formatter emits is
\* written as one element per tag.  No tag holds a backtick, an asterisk or
\* a line break, so the later stages treat a tag as they treat any other
\* character.  The indentation of the code block template is left out.

EscapeCharTwice(ch) ==
    CASE ch = "&" -> << "&", "a", "m", "p", ";", "a", "m", "p", ";" >>
      [] ch = "<" -> << "&", "a", "m", "p", ";", "l", "t", ";" >>
      [] ch = ">" -> << "&", "a", "m", "p", ";", "g", "t", ";" >>
      [] OTHER -> << ch >>

EscapeCharKeepsAmp(ch) ==
    CASE ch = "<" -> << "&", "l", "t", ";" >>
      [] ch = ">" -> << "&", "g", "t", ";" >>
      [] OTHER -> << ch >>

EscapeChar(ch) ==
    CASE ch = "&" -> << "&", "a", "m", "p", ";" >>
      [] ch = "<" -> << "&", "l", "t", ";" >>
      [] ch = ">" -> << "&", "g", "t", ";" >>
      [] OTHER -> << ch >>

\* UI.escapeHtml: textContent written, innerHTML read.
RECURSIVE EscapeHtml(_)
EscapeHtml(text) ==
    IF text = << >> THEN << >> ELSE EscapeChar(Head(text)) \o EscapeHtml(Tail(text))

\* The characters \w matches.
WordChars ==
    { "a", "b", "c", "d", "e", "f", "g", "h", "i", "j", "k", "l", "m", "n", "o", "p",
      "q", "r", "s", "t", "u", "v", "w", "x", "y", "z", "0", "1", "2", "3", "4", "5",
      "6", "7", "8", "9", "_" }

\* The character U+0060, which a string of this language cannot hold.
Backquote == "backquote"

Fence == << Backquote, Backquote, Backquote >>

\* The pattern stands in s at index i.
IsAt(s, i, pat) ==
    /\ i >= 1
    /\ i + Len(pat) - 1 <= Len(s)
    /\ SubSeq(s, i, i + Len(pat) - 1) = pat

\* Least index from which on the pattern stands in s; 0 when there is none.
FirstAt(s, from, pat) ==
    IF \E j \in from..Len(s) : IsAt(s, j, pat)
    THEN CHOOSE j \in from..Len(s) :
            /\ IsAt(s, j, pat)
            /\ \A k \in from..(j - 1) : ~IsAt(s, k, pat)
    ELSE 0

\* Length of the longest run of \w characters of s that starts at index i.
WordRun(s, i) ==
    CHOOSE n \in 0..(Len(s) + 1 - i) :
        /\ \A k \in 0..(n - 1) : s[i + k] \in WordChars
        /\ i + n <= Len(s) => s[i + n] \notin WordChars

\* The template the code block stage substitutes.
CodeBlock(lang, code) ==
    << "\n", "<div class='code-block'>",
       "\n", "<div class='code-header'>",
       "\n", "<span class='code-language'>" >> \o lang \o << "</span>",
       "\n", "<button class='code-copy-btn'>", "C", "o", "p", "y", "</button>",
       "\n", "</div>",
       "\n", "<div class='code-content'>", "<code>" >> \o code \o << "</code>", "</div>",
       "\n", "</div>",
       "\n" >>

NoMatch == [next |-> 0, out |-> << >>]

\* /```(\w+)?\n([\s\S]*?)```/ tried at index i: the index after the match
\* and the replacement.
CodeBlockAt(s, i) ==
    IF ~IsAt(s, i, Fence) THEN NoMatch
    ELSE LET nl == i + 3 + WordRun(s, i + 3)
             close == FirstAt(s, nl + 1, Fence)
         IN  IF nl <= Len(s) /\ s[nl] = "\n" /\ close # 0
             THEN [next |-> close + 3,
                   out |-> CodeBlock(IF nl = i + 3 THEN << "c", "o", "d", "e" >>
                                     ELSE SubSeq(s, i + 3, nl - 1),
                                     Trim(SubSeq(s, nl + 1, close - 1)))]
             ELSE NoMatch

\* /`([^`]+)`/ tried at index i
InlineCodeAt(s, i) ==
    LET close == FirstAt(s, i + 2, << Backquote >>)
    IN  IF s[i] = Backquote /\ i + 1 <= Len(s) /\ s[i + 1] # Backquote /\ close # 0
        THEN [next |-> close + 1,
              out |-> << "<code>" >> \o SubSeq(s, i + 1, close - 1) \o << "</code>" >>]
        ELSE NoMatch

\* /\*\*([^*]+)\*\*/ tried at index i
BoldAt(s, i) ==
    LET close == FirstAt(s, i + 3, << "*" >>)
    IN  IF /\ IsAt(s, i, << "*", "*" >>)
           /\ i + 2 <= Len(s)
           /\ s[i + 2] # "*"
           /\ close # 0
           /\ IsAt(s, close, << "*", "*" >>)
        THEN [next |-> close + 2,
              out |-> << "<strong>" >> \o SubSeq(s, i + 2, close - 1) \o << "</strong>" >>]
        ELSE NoMatch

\* /\*([^*]+)\*/ tried at index i
ItalicAt(s, i) ==
    LET close == FirstAt(s, i + 2, << "*" >>)
    IN  IF s[i] = "*" /\ i + 1 <= Len(s) /\ s[i + 1] # "*" /\ close # 0
        THEN [next |-> close + 1,
              out |-> << "<em>" >> \o SubSeq(s, i + 1, close - 1) \o << "</em>" >>]
        ELSE NoMatch

\* /\n/ tried at index i
BreakAt(s, i) ==
    IF s[i] = "\n" THEN [next |-> i + 1, out |-> << "<br>" >>] ELSE NoMatch

MatchAt(stage, s, i) ==
    CASE stage = "codeBlock" -> CodeBlockAt(s, i)
      [] stage = "inlineCode" -> InlineCodeAt(s, i)
      [] stage = "bold" -> BoldAt(s, i)
      [] stage = "italic" -> ItalicAt(s, i)
      [] stage = "break" -> BreakAt(s, i)

\* String.prototype.replace with a global pattern, from index i on: the
\* leftmost match is replaced and the search goes on behind it.
RECURSIVE ReplaceFrom(_, _, _)
ReplaceFrom(stage, s, i) ==
    IF i > Len(s) THEN << >>
    ELSE IF MatchAt(stage, s, i).next = 0
         THEN << s[i] >> \o ReplaceFrom(stage, s, i + 1)
         ELSE MatchAt(stage, s, i).out \o ReplaceFrom(stage, s, MatchAt(stage, s, i).next)

Replace(stage, s) == ReplaceFrom(stage, s, 1)

FormatItalicFirst(content) ==
    Replace("break",
        Replace("bold",
            Replace("italic",
                Replace("inlineCode",
                    Replace("codeBlock", EscapeHtml(content))))))

\* Chat.formatMessage
FormatMessage(content) ==
    Replace("break",
        Replace("italic",
            Replace("bold",
                Replace("inlineCode",
                    Replace("codeBlock", EscapeHtml(content))))))

\* The element of #chatMessages for one message: its role class and the
\* innerHTML of its message-text; argument is what formatMessage was
\* called with, if it was.
NoElement == [content |-> << >>, role |-> "none", html |-> << >>, argument |-> None]

\* Chat.addMessage, the element it appends.
MessageElement(message) ==
    [content |-> message.content, role |-> message.role,
     html |-> FormatMessage(message.content), argument |-> Some(message.content)]

\* ------------------------------------------------------------------------
\* Auth: the stored token and the route guard
\* ------------------------------------------------------------------------

\* A token is the sequence of its dot-separated segments.  A segment is
\* described by what atob and JSON.parse make of it: enc is "base64" (atob
\* decodes it), "base64url" (it holds - or _, which atob rejects) or
\* "invalid"; json is "object", "null" (the JSON text null) or "text" (not
\* JSON); payload holds the claims of an object.
Segment(enc, json, sub, exp) ==
    [enc |-> enc, json |-> json, payload |-> [sub |-> sub, exp |-> exp]]

Filler == Segment("base64", "object", None, None)

\* token.split('.')[1]; undefined when the token has a single segment
SecondSegment(token) == IF Len(token) >= 2 THEN Some(token[2]) ELSE None

\* atob(segment): None when it throws.  atob(undefined) decodes the nine
\* characters of "undefined", a length atob rejects.
Atob(segment) ==
    IF segment # None /\ segment[1].enc = "base64" THEN segment ELSE None

\* JSON.parse(text): None when it throws, else the parsed value.
JsonParse(text) ==
    IF text = None \/ text[1].json = "text" THEN None ELSE text

\* The user object built from the payload; None when a property read of a
\* null payload throws.
UserOf(parsed) ==
    IF parsed = None \/ parsed[1].json = "null" THEN None
    ELSE Some([id |-> parsed[1].payload.sub, exp |-> parsed[1].payload.exp])

ExpiredStrictlyAfter(user, t) ==
    /\ user.exp # None
    /\ user.exp[1] # 0
    /\ t > user.exp[1] * 1000

\* this.user.exp && Date.now() >= this.user.exp * 1000
Expired(user, t) ==
    /\ user.exp # None
    /\ user.exp[1] # 0
    /\ t >= user.exp[1] * 1000

LoggedOutKeepsGuest(a) ==
    [a EXCEPT !.token = None, !.user = None, !.href = Some("/auth.html")]

\* Auth.logout on the Auth object and the keys of localStorage it reads
LoggedOut(a) ==
    [a EXCEPT !.token = None, !.guest = FALSE, !.user = None,
              !.href = Some("/auth.html")]

\* Auth.updateUI: what the sidebar shows
UpdateUI(a) ==
    [a EXCEPT !.shown = IF a.guest THEN Some("guest")
                        ELSE IF a.user # None THEN Some("user") ELSE a.shown]

\* Auth.loadUser; cleared tells whether localStorage.clear() ran
LoadUser(a, t) ==
    LET decoded == UserOf(JsonParse(Atob(SecondSegment(a.token[1]))))
    IN  IF a.token = None THEN [auth |-> a, cleared |-> FALSE]
        ELSE IF decoded = None THEN [auth |-> LoggedOut(a), cleared |-> TRUE]
        ELSE IF Expired(decoded[1], t) THEN [auth |-> LoggedOut(a), cleared |-> TRUE]
        ELSE [auth |-> UpdateUI([a EXCEPT !.user = decoded]), cleared |-> FALSE]

CheckAuthIgnoresGuest(a) ==
    LET isAuthPage == a.view = "auth"
        hasAccess == a.token # None
    IN  IF ~hasAccess /\ ~isAuthPage
        THEN [a EXCEPT !.href = Some("/auth.html"), !.guard = Some(FALSE)]
        ELSE IF hasAccess /\ isAuthPage
        THEN [a EXCEPT !.href = Some("/"), !.guard = Some(FALSE)]
        ELSE [a EXCEPT !.guard = Some(TRUE)]

\* Auth.checkAuth
CheckAuth(a) ==
    LET isAuthPage == a.view = "auth"
        hasAccess == a.token # None \/ a.guest
    IN  IF ~hasAccess /\ ~isAuthPage
        THEN [a EXCEPT !.href = Some("/auth.html"), !.guard = Some(FALSE)]
        ELSE IF hasAccess /\ isAuthPage
        THEN [a EXCEPT !.href = Some("/"), !.guard = Some(FALSE)]
        ELSE [a EXCEPT !.guard = Some(TRUE)]

\* Auth.getCurrentUser, Auth.isAuthenticated
GetCurrentUser(a) == a.user
IsAuthenticated(a) == a.user # None /\ a.token # None

\* The Auth object of a page just entered: its script has not run yet.
EnteredPage(token, guest, view) ==
    [token |-> token, guest |-> guest, user |-> None, view |-> view,
     pc |-> "init", href |-> None, guard |-> None, shown |-> None]

\* Stored tokens: well-formed ones with and without an expiry (in seconds),
\* and malformed ones.
GoodToken(exp) == << Filler, Segment("base64", "object", Some(7), exp), Filler >>

Expiries == { None, Some(0), Some(1), Some(2) }

BadTokens ==
    { << Filler >>,
      << Filler, Segment("base64", "object", Some(7), None) >>,
      << Filler, Segment("base64", "object", Some(7), None), Filler, Filler >>,
      << Filler, Segment("base64url", "object", Some(7), None), Filler >>,
      << Filler, Segment("invalid", "text", None, None), Filler >>,
      << Filler, Segment("base64", "text", None, None), Filler >>,
      << Filler, Segment("base64", "null", None, None), Filler >> }

Tokens == { GoodToken(exp) : exp \in Expiries } \cup BadTokens

\* Date.now() in milliseconds at the page entry
AuthTimes == { 999, 1000, 1001 }

Views == { "app", "auth" }

\* The Auth object of a signed-in user on the application page, its
\* constructor done.
SignedIn ==
    [token |-> Some(GoodToken(None)), guest |-> FALSE,
     user |-> Some([id |-> Some(7), exp |-> None]), view |-> "app",
     pc |-> "done", href |-> None, guard |-> Some(TRUE), shown |-> Some("user")]

\* ------------------------------------------------------------------------
\* Initial state: a freshly loaded page over an empty localStorage
\* ------------------------------------------------------------------------
InitPage(tasks) ==
    /\ store = << >>
    /\ currentConversation = None
    /\ aliased = FALSE
    /\ messages = << >>
    /\ sessionId = 0
    /\ isTyping = FALSE
    /\ inputValue = << >>
    /\ sendBtnDisabled = FALSE
    /\ starIcon = FALSE
    /\ pinnedList = << >>
    /\ recentList = << >>
    /\ inflight = {}
    /\ calls = << >>
    /\ toast = None
    /\ initPc = "health"
    /\ nextConv = 0
    /\ now = 0
    /\ steps = 0
    /\ horizon = tasks
    /\ lastSave = None
    /\ deleted = {}
    /\ auth = SignedIn
    /\ kept = NoRaw
    /\ element = NoElement
    /\ lastOp = "load"

Init == InitPage(MaxSteps)

\* ------------------------------------------------------------------------
\* Actions
\* ------------------------------------------------------------------------

\* The call saveConversation(conversation) made by a step, with the index
\* its findIndex returns.
Saved(conversation) ==
    Some([conversation |-> conversation, index |-> FindIndex(store, conversation.id)])

\* One more task within the horizon of the model; removed are the ids the
\* task calls deleteConversation with.
Count ==
    /\ steps < horizon
    /\ steps' = steps + 1
    /\ horizon' = horizon

Tock ==
    /\ Count
    /\ kept' = kept
    /\ element' = element

Task(removed) ==
    /\ initPc # "left"
    /\ Tock
    /\ deleted' = deleted \cup removed
    /\ auth' = auth

Step == Task({})

\* Time passes between two tasks.
Tick ==
    /\ now < MaxClock
    /\ now' = now + 1
    /\ lastOp' = "tick"
    /\ Step
    /\ lastSave' = None
    /\ toast' = None
    /\ UNCHANGED << store, currentConversation, aliased, messages, sessionId, isTyping,
                    inputValue, sendBtnDisabled, starIcon, pinnedList, recentList,
                    inflight, calls, initPc, nextConv >>

\* initializeApp after a successful health check: refresh the lists, then
\* load the conversation named by the page's ?conv= parameter (0 = absent)
\* or start a new one.
HealthOk(urlConv) ==
    /\ initPc = "health"
    /\ initPc' = "ready"
    /\ RenderLists(store)
    /\ IF urlConv # 0
       THEN /\ LoadFits(store, urlConv)
            /\ SetChat(LoadConversation(Chat, store, urlConv))
       ELSE /\ nextConv < MaxConvs
            /\ SetChat(StartNewConversation(Chat, now))
    /\ lastOp' = "healthOk"
    /\ Step
    /\ lastSave' = None
    /\ toast' = None
    /\ UNCHANGED << store, isTyping, inputValue, sendBtnDisabled, starIcon,
                    inflight, calls, now >>

\* initializeApp when the health check fails: only a toast.
HealthFail ==
    /\ initPc = "health"
    /\ initPc' = "failed"
    /\ toast' = Some("error")
    /\ lastOp' = "healthFail"
    /\ Step
    /\ lastSave' = None
    /\ UNCHANGED << store, currentConversation, aliased, messages, sessionId, isTyping,
                    inputValue, sendBtnDisabled, starIcon, pinnedList, recentList,
                    inflight, calls, nextConv, now >>

\* The user edits the textarea; the input listener runs Chat.handleInput.
HandleInput(text) ==
    /\ inputValue' = text
    /\ sendBtnDisabled' = (Len(text) = 0 \/ Len(text) > MAX_MESSAGE_LENGTH)
    /\ lastOp' = "input"
    /\ Step
    /\ lastSave' = None
    /\ toast' = None
    /\ UNCHANGED << store, currentConversation, aliased, messages, sessionId, isTyping,
                    starIcon, pinnedList, recentList, inflight, calls, initPc,
                    nextConv, now >>

\* Chat.sendMessage up to its await, on the text found in the textarea.
\* API.sendMessage generates a session id when the engine has none.
SendMessage(raw) ==
    LET message == Trim(raw)
        S1 == AddMessage(Chat, [role |-> "user", content |-> message, timestamp |-> now])
    IN  /\ lastSave' = None
        /\ toast' = None
        /\ IF message = << >>
           THEN /\ inputValue' = raw
                /\ UNCHANGED << store, currentConversation, aliased, messages, sessionId,
                                isTyping, sendBtnDisabled, starIcon, pinnedList, recentList,
                                inflight, calls, initPc, nextConv, now >>
           ELSE /\ Len(calls) < MaxSends
                /\ Len(messages) < MaxMessages
                /\ currentConversation' = S1.cc
                /\ messages' = S1.msgs
                /\ inputValue' = << >>
                /\ sendBtnDisabled' = TRUE
                /\ isTyping' = TRUE
                /\ calls' = Append(calls,
                        [conv |-> IF currentConversation = None THEN 0
                                  ELSE currentConversation[1].id,
                         session_id |-> IF sessionId = 0 THEN GenerateSessionId(sessionId)
                                        ELSE sessionId,
                         message |-> message])
                /\ inflight' = inflight \cup {Len(calls) + 1}
                /\ UNCHANGED << store, aliased, sessionId, starIcon, pinnedList,
                                recentList, initPc, nextConv, now >>

\* keydown Enter without Shift in the textarea
PressEnter ==
    /\ lastOp' = "enter"
    /\ Step
    /\ SendMessage(inputValue)

\* click on the send button; a disabled button dispatches no click
ClickSend ==
    /\ ~sendBtnDisabled
    /\ lastOp' = "click"
    /\ Step
    /\ SendMessage(inputValue)

\* click on a prompt card: the prompt replaces the textarea's value
ClickPromptCard(prompt) ==
    /\ lastOp' = "prompt"
    /\ Step
    /\ SendMessage(prompt)

\* The gateway answers request r with a success body.
GatewaySuccess(r, body) ==
    LET message == calls[r].message
        S1 == IF Truthy(body.response)
              THEN AddMessage(Chat, [role |-> "ai", content |-> body.response[1],
                                     timestamp |-> now,
                                     confidence |-> body.confidence,
                                     sources |-> body.sources])
              ELSE Chat
        S2 == UpdateConversation(S1, message, body.response, now)
    IN  /\ r \in inflight
        /\ currentConversation = None => nextConv < MaxConvs
        /\ Len(messages) < MaxMessages
        /\ inflight' = inflight \ {r}
        /\ isTyping' = FALSE
        /\ SetChat(S2)
        /\ store' = SaveConversation(store, S2.cc[1])
        /\ lastSave' = Saved(S2.cc[1])
        /\ RenderLists(store')
        /\ lastOp' = "reply"
        /\ Step
        /\ toast' = None
        /\ UNCHANGED << inputValue, sendBtnDisabled, starIcon, calls, initPc, now >>

GatewayErrorRollsBack(r) ==
    /\ r \in inflight
    /\ inflight' = inflight \ {r}
    /\ isTyping' = FALSE
    /\ toast' = Some("error")
    /\ messages' = IF messages = << >> THEN messages ELSE SubSeq(messages, 1, Len(messages) - 1)
    /\ lastOp' = "error"
    /\ Step
    /\ lastSave' = None
    /\ UNCHANGED << store, currentConversation, aliased, sessionId, inputValue,
                    sendBtnDisabled, starIcon, pinnedList, recentList, calls, initPc,
                    nextConv, now >>

\* The gateway call of request r fails: the catch block of Chat.sendMessage.
GatewayError(r) ==
    /\ r \in inflight
    /\ inflight' = inflight \ {r}
    /\ isTyping' = FALSE
    /\ toast' = Some("error")
    /\ lastOp' = "error"
    /\ Step
    /\ lastSave' = None
    /\ UNCHANGED << store, currentConversation, aliased, messages, sessionId, inputValue,
                    sendBtnDisabled, starIcon, pinnedList, recentList, calls, initPc,
                    nextConv, now >>

\* New chat button, Ctrl/Cmd+N
NewChat ==
    /\ nextConv < MaxConvs
    /\ SetChat(StartNewConversation(Chat, now))
    /\ lastOp' = "new"
    /\ Step
    /\ lastSave' = None
    /\ toast' = None
    /\ UNCHANGED << store, isTyping, inputValue, sendBtnDisabled, starIcon, pinnedList,
                    recentList, inflight, calls, initPc, now >>

\* click on a rendered conversation item
ClickConversation(id) ==
    /\ id \in Rendered
    /\ LoadFits(store, id)
    /\ SetChat(LoadConversation(Chat, store, id))
    /\ lastOp' = "open"
    /\ Step
    /\ lastSave' = None
    /\ toast' = None
    /\ UNCHANGED << store, isTyping, inputValue, sendBtnDisabled, starIcon, pinnedList,
                    recentList, inflight, calls, initPc, now >>

\* UI.deleteConversation, confirmed
ClickDelete(id) ==
    /\ id \in Rendered
    /\ store' = DeleteConversation(store, id)
    /\ RenderLists(store')
    /\ toast' = Some("success")
    /\ lastOp' = "delete"
    /\ Task({id})
    /\ lastSave' = None
    /\ UNCHANGED << currentConversation, aliased, messages, sessionId, isTyping,
                    inputValue, sendBtnDisabled, starIcon, inflight, calls, initPc,
                    nextConv, now >>

\* UI.pinConversation
ClickPin(id) ==
    LET found == Find(store, id)
        conv == SetField(found[1], "pinned", Some(~TruthyFlag(Get(found[1], "pinned"))))
    IN  /\ id \in Rendered
        /\ lastOp' = "pin"
        /\ Step
        /\ IF found = None
           THEN /\ lastSave' = None
                /\ toast' = None
                /\ UNCHANGED << store, pinnedList, recentList >>
           ELSE /\ store' = SaveConversation(store, conv)
                /\ lastSave' = Saved(conv)
                /\ RenderLists(store')
                /\ toast' = Some("success")
        /\ UNCHANGED << currentConversation, aliased, messages, sessionId, isTyping,
                        inputValue, sendBtnDisabled, starIcon, inflight, calls, initPc,
                        nextConv, now >>

\* UI.toggleStar: the new flag is derived from the icon, not from the conversation.
ToggleStar ==
    LET conv == [currentConversation[1] EXCEPT !.starred = ~starIcon]
    IN  /\ starIcon' = ~starIcon
        /\ lastOp' = "star"
        /\ Step
        /\ toast' = Some("success")
        /\ IF currentConversation = None
           THEN /\ lastSave' = None
                /\ UNCHANGED << store, currentConversation >>
           ELSE /\ currentConversation' = Some(conv)
                /\ store' = SaveConversation(store, conv)
                /\ lastSave' = Saved(conv)
        /\ UNCHANGED << aliased, messages, sessionId, isTyping, inputValue,
                        sendBtnDisabled, pinnedList, recentList, inflight, calls, initPc,
                        nextConv, now >>

\* UI.clearConversation, confirmed: two fresh empty arrays
ClearConversation ==
    /\ currentConversation # None
    /\ currentConversation' = Some([currentConversation[1] EXCEPT !.messages = << >>])
    /\ messages' = << >>
    /\ aliased' = FALSE
    /\ toast' = Some("success")
    /\ lastOp' = "clear"
    /\ Step
    /\ lastSave' = None
    /\ UNCHANGED << store, sessionId, isTyping, inputValue, sendBtnDisabled, starIcon,
                    pinnedList, recentList, inflight, calls, initPc, nextConv, now >>

\* Logout in the user menu: Auth.logout clears all of localStorage, the
\* conversations included, and navigates to the auth view; the page's
\* objects and its outstanding requests are gone with the page.
Logout ==
    /\ auth.pc = "done"
    /\ auth.view = "app"
    /\ ~auth.guest
    /\ auth.href = None
    /\ auth' = LoggedOut(auth)
    /\ store' = << >>
    /\ initPc # "left"
    /\ initPc' = "left"
    /\ currentConversation' = None
    /\ aliased' = FALSE
    /\ messages' = << >>
    /\ sessionId' = 0
    /\ isTyping' = FALSE
    /\ inputValue' = << >>
    /\ sendBtnDisabled' = FALSE
    /\ starIcon' = FALSE
    /\ pinnedList' = << >>
    /\ recentList' = << >>
    /\ inflight' = {}
    /\ toast' = None
    /\ lastOp' = "logout"
    /\ Tock
    /\ lastSave' = None
    /\ UNCHANGED << calls, nextConv, now, deleted >>

\* The variables of the conversation page that the Auth constructor and a
\* navigation leave alone.
pageVars == << currentConversation, aliased, messages, sessionId, isTyping,
               inputValue, sendBtnDisabled, starIcon, pinnedList, recentList,
               inflight, calls, toast, initPc, nextConv, now, lastSave, deleted >>

\* new Auth(), first statement of init(): loadUser runs to its end, no await
\* being in it.
AuthLoadUser ==
    /\ auth.pc = "init"
    /\ auth' = [LoadUser(auth, now).auth EXCEPT !.pc = "loaded"]
    /\ store' = IF LoadUser(auth, now).cleared THEN << >> ELSE store
    /\ lastOp' = "loadUser"
    /\ Tock
    /\ UNCHANGED pageVars

\* second statement of init(): the route guard
AuthCheckAuth ==
    /\ auth.pc = "loaded"
    /\ auth' = [CheckAuth(auth) EXCEPT !.pc = "checked"]
    /\ lastOp' = "checkAuth"
    /\ Tock
    /\ UNCHANGED << store, pageVars >>

\* last statement of init(): the sidebar of a guest
AuthGuestUI ==
    /\ auth.pc = "checked"
    /\ auth' = [(IF auth.guest THEN UpdateUI(auth) ELSE auth) EXCEPT !.pc = "done"]
    /\ lastOp' = "guestUI"
    /\ Tock
    /\ UNCHANGED << store, pageVars >>

\* The browser follows the last assignment to window.location.href: the
\* target page is entered and its scripts start over the same localStorage.
FollowRedirect ==
    /\ auth.pc = "done"
    /\ auth.href # None
    /\ auth' = EnteredPage(auth.token, auth.guest,
                           IF auth.href = Some("/auth.html") THEN "auth" ELSE "app")
    /\ initPc' = "health"
    /\ currentConversation' = None
    /\ aliased' = FALSE
    /\ messages' = << >>
    /\ sessionId' = 0
    /\ isTyping' = FALSE
    /\ inputValue' = << >>
    /\ sendBtnDisabled' = FALSE
    /\ starIcon' = FALSE
    /\ pinnedList' = << >>
    /\ recentList' = << >>
    /\ inflight' = {}
    /\ toast' = None
    /\ lastOp' = "navigate"
    /\ Tock
    /\ lastSave' = None
    /\ UNCHANGED << store, calls, nextConv, now, deleted >>

\* The conversation engine and the store under every conversation action;
\* turns are started from the prompt cards.
Next ==
    \/ \E urlConv \in 0..MaxConvs : HealthOk(urlConv)
    \/ HealthFail
    \/ \E prompt \in PromptCards : ClickPromptCard(prompt)
    \/ \E r \in 1..MaxSends, body \in Responses : GatewaySuccess(r, body)
    \/ \E r \in 1..MaxSends : GatewayError(r)
    \/ NewChat
    \/ \E id \in ConvIds : ClickConversation(id)
    \/ \E id \in ConvIds : ClickDelete(id)
    \/ \E id \in ConvIds : ClickPin(id)
    \/ ToggleStar
    \/ ClearConversation
    \/ Logout

Spec == Init /\ [][Next]_vars

\* The turn pipeline of one page over the full range of typed texts and
\* gateway answers, with time passing between the tasks.
NextTurn ==
    \/ Tick
    \/ HealthOk(0)
    \/ HealthFail
    \/ \E text \in Texts : HandleInput(text)
    \/ PressEnter
    \/ ClickSend
    \/ \E prompt \in PromptCards : ClickPromptCard(prompt)
    \/ \E r \in 1..MaxSends, body \in AllResponses : GatewaySuccess(r, body)
    \/ \E r \in 1..MaxSends : GatewayError(r)

InitTurn == InitPage(MaxTurnSteps)

SpecTurn == InitTurn /\ [][NextTurn]_vars

\* The time stamps of the conversations: turns, switches of the active
\* conversation, pin and star, with time passing between the tasks.
NextStamp ==
    \/ Tick
    \/ HealthOk(0)
    \/ \E prompt \in PromptCards : ClickPromptCard(prompt)
    \/ \E r \in 1..MaxSends, body \in Responses : GatewaySuccess(r, body)
    \/ \E r \in 1..MaxSends : GatewayError(r)
    \/ NewChat
    \/ \E id \in ConvIds : ClickConversation(id)
    \/ \E id \in ConvIds : ClickPin(id)
    \/ ToggleStar

InitStamp == InitPage(MaxStampSteps)

SpecStamp == InitStamp /\ [][NextStamp]_vars

\* A page loaded over a localStorage that already holds MaxListConvs
\* conversations, each saved by a turn whose reply had no text, the latest
\* first; initializeApp has rendered the lists and started a conversation.
ListIds == 1..MaxListConvs

StoredList ==
    [i \in 1..MaxListConvs |->
        [id |-> MaxListConvs + 1 - i, title |-> DefaultTitle,
         messages |-> << [role |-> "user", content |-> THello, timestamp |-> 0] >>,
         created_at |-> 0, updated_at |-> 0, starred |-> FALSE]]

InitList ==
    /\ store = StoredList
    /\ currentConversation = Some([id |-> MaxListConvs + 1, title |-> DefaultTitle,
                                    messages |-> << >>, created_at |-> 0,
                                    updated_at |-> 0, starred |-> FALSE])
    /\ aliased = FALSE
    /\ messages = << >>
    /\ sessionId = 1
    /\ isTyping = FALSE
    /\ inputValue = << >>
    /\ sendBtnDisabled = FALSE
    /\ starIcon = FALSE
    /\ pinnedList = Ids(PinnedPartition(StoredList))
    /\ recentList = Ids(RecentPartition(StoredList))
    /\ inflight = {}
    /\ calls = << >>
    /\ toast = None
    /\ initPc = "ready"
    /\ nextConv = MaxListConvs + 1
    /\ now = 0
    /\ steps = 0
    /\ horizon = MaxListSteps
    /\ lastSave = None
    /\ deleted = {}
    /\ auth = SignedIn
    /\ kept = NoRaw
    /\ element = NoElement
    /\ lastOp = "healthOk"

\* The conversation list under pin and delete clicks.
NextList ==
    \/ \E id \in ListIds : ClickPin(id)
    \/ \E id \in ListIds : ClickDelete(id)

SpecList == InitList /\ [][NextList]_vars

\* A page entered over a localStorage holding one conversation, any of the
\* tokens or none, and the guest flag set or not.
StoredOne ==
    << [id |-> 1, title |-> DefaultTitle,
        messages |-> << [role |-> "user", content |-> THello, timestamp |-> 0] >>,
        created_at |-> 0, updated_at |-> 0, starred |-> FALSE] >>

InitAuth ==
    /\ store = StoredOne
    /\ auth \in { EnteredPage(token, guest, view) :
                     token \in {None} \cup {Some(t) : t \in Tokens},
                     guest \in BOOLEAN, view \in Views }
    /\ now \in AuthTimes
    /\ currentConversation = None
    /\ aliased = FALSE
    /\ messages = << >>
    /\ sessionId = 0
    /\ isTyping = FALSE
    /\ inputValue = << >>
    /\ sendBtnDisabled = FALSE
    /\ starIcon = FALSE
    /\ pinnedList = << >>
    /\ recentList = << >>
    /\ inflight = {}
    /\ calls = << >>
    /\ toast = None
    /\ initPc = "health"
    /\ nextConv = 1
    /\ steps = 0
    /\ horizon = MaxAuthSteps
    /\ lastSave = None
    /\ deleted = {}
    /\ kept = NoRaw
    /\ element = NoElement
    /\ lastOp = "load"

\* The Auth constructor at every page entry, the redirects it asks for, and
\* the Logout of the user menu.
NextAuth ==
    \/ AuthLoadUser
    \/ AuthCheckAuth
    \/ AuthGuestUI
    \/ FollowRedirect
    \/ Logout

SpecAuth == InitAuth /\ [][NextAuth]_vars

\* Conversations of an item found at page entry: one as a turn saved it, and
\* a pinned one without a messages key.
RawSaved == StoredOne[1]
RawPinned == [id |-> 2, title |-> DefaultTitle, created_at |-> 0, updated_at |-> 0,
              starred |-> FALSE, pinned |-> Some(TRUE)]

RawItems ==
    { Item("absent", << >>),
      Item("text", << >>),
      Item("null", << >>),
      Item("object", << >>),
      Item("array", << >>),
      Item("array", << ObjectEntry(RawSaved) >>),
      Item("array", << ObjectEntry(RawPinned), ObjectEntry(RawSaved) >>),
      Item("array", << ObjectEntry(RawSaved), NullEntry, ObjectEntry(RawPinned) >>),
      Item("array", << NullEntry, ObjectEntry(RawSaved) >>) }

\* The conversation a save is called with.
RawConversation(id) ==
    [id |-> id, title |-> TShort, messages |-> << >>, created_at |-> 0,
     updated_at |-> 1, starred |-> FALSE]

RawIds == 1..3

chatVars == << currentConversation, aliased, messages, sessionId, nextConv >>
listVars == << pinnedList, recentList >>
otherVars == << store, isTyping, inputValue, sendBtnDisabled, starIcon, inflight, calls,
                toast, initPc, now, lastSave, deleted, auth, element >>

\* a call of API.getConversations
CallGetConversations ==
    /\ kept' = [kept EXCEPT !.failure = GetConversations(kept.item).failure]
    /\ lastOp' = "getConversations"
    /\ Count
    /\ UNCHANGED << chatVars, listVars, otherVars >>

\* a call of API.saveConversation
CallSaveConversation(id) ==
    /\ kept' = SaveIntoItem(kept.item, RawConversation(id))
    /\ lastOp' = "saveConversation"
    /\ Count
    /\ UNCHANGED << chatVars, listVars, otherVars >>

\* a call of Chat.loadConversation
CallLoadConversation(id) ==
    LET found == FindInItem(kept.item, id)
    IN  /\ kept' = [kept EXCEPT !.failure = found.failure]
        /\ IF found.failure = None
           THEN SetChat(LoadConversation(Chat, found.value, id))
           ELSE UNCHANGED chatVars
        /\ lastOp' = "loadConversation"
        /\ Count
        /\ UNCHANGED << listVars, otherVars >>

\* a call of Chat.loadConversationsList
CallLoadConversationsList ==
    LET listed == ListFromItem(kept.item)
    IN  /\ kept' = [kept EXCEPT !.failure = listed.failure]
        /\ IF listed.failure = None
           THEN RenderLists(listed.value)
           ELSE UNCHANGED listVars
        /\ lastOp' = "loadConversationsList"
        /\ Count
        /\ UNCHANGED << chatVars, otherVars >>

NextRaw ==
    \/ CallGetConversations
    \/ \E id \in RawIds : CallSaveConversation(id)
    \/ \E id \in RawIds : CallLoadConversation(id)
    \/ CallLoadConversationsList

\* A page over a conversations item of any of the kinds.
InitRaw ==
    /\ kept \in { [item |-> item, failure |-> None] : item \in RawItems }
    /\ store = << >>
    /\ currentConversation = None
    /\ aliased = FALSE
    /\ messages = << >>
    /\ sessionId = 0
    /\ isTyping = FALSE
    /\ inputValue = << >>
    /\ sendBtnDisabled = FALSE
    /\ starIcon = FALSE
    /\ pinnedList = << >>
    /\ recentList = << >>
    /\ inflight = {}
    /\ calls = << >>
    /\ toast = None
    /\ initPc = "ready"
    /\ nextConv = 0
    /\ now = 0
    /\ steps = 0
    /\ horizon = MaxRawSteps
    /\ lastSave = None
    /\ deleted = {}
    /\ auth = SignedIn
    /\ element = NoElement
    /\ lastOp = "load"

SpecRaw == InitRaw /\ [][NextRaw]_vars

\* The texts messages are made of.
Alphabet == { "a", "\n", "*", Backquote, "<", ">", "&" }

TextsUpTo(n) == UNION { [1..k -> Alphabet] : k \in 0..n }

Around == { << >>, << "a" >>, << "\n" >> }
Before == { << >>, << "a" >> }
After == { << >>, << "\n" >> }
Langs == { << >>, << "j", "s" >> }

\* A fenced code block with text before and after it.
Fenced(pre, lang, inner, post) == pre \o Fence \o lang \o << "\n" >> \o inner \o Fence \o post

\* A run between two delimiters with text before and after it.
Delimited(pre, mark, run, post) == pre \o mark \o run \o mark \o post

Marks == { << "*" >>, << "*", "*" >> }

FormatTexts ==
    TextsUpTo(MaxTextLen)
    \cup { Fenced(pre, lang, inner, post) :
             pre \in Before, lang \in Langs, inner \in TextsUpTo(MaxTextLen),
             post \in After }
    \cup { Delimited(pre, mark, run, post) :
             pre \in Around, mark \in Marks, run \in TextsUpTo(MaxTextLen - 1),
             post \in Around }
    \cup { << "&", "l", "t", ";" >>, << "&", "a", "m", "p", ";" >> }

formatRest == << store, isTyping, inputValue, sendBtnDisabled, starIcon, pinnedList,
                 recentList, inflight, calls, toast, initPc, now, lastSave, deleted,
                 auth, kept >>

\* Chat.addMessage(message) for the text the page is about to show.
Show(role, op) ==
    /\ element.role = "none"
    /\ element' = MessageElement([role |-> role, content |-> element.content])
    /\ SetChat(AddMessage(Chat, [role |-> role, content |-> element.content,
                                  timestamp |-> now]))
    /\ lastOp' = op
    /\ Count
    /\ UNCHANGED formatRest

\* the user message of sendMessage
ShowSent ==
    /\ element.content # << >>
    /\ element.content = Trim(element.content)
    /\ Show("user", "showSent")

\* the reply of the gateway
ShowReply ==
    /\ element.content # << >>
    /\ Show("ai", "showReply")

\* a message of a stored conversation, rendered by loadConversation
ShowLoaded(role) == Show(role, "showLoaded")

NextFormat ==
    \/ ShowSent
    \/ ShowReply
    \/ \E role \in {"user", "ai"} : ShowLoaded(role)

\* A page about to show a message with any of the texts.
InitFormat ==
    /\ element \in { [NoElement EXCEPT !.content = text] : text \in FormatTexts }
    /\ store = << >>
    /\ currentConversation = None
    /\ aliased = FALSE
    /\ messages = << >>
    /\ sessionId = 0
    /\ isTyping = FALSE
    /\ inputValue = << >>
    /\ sendBtnDisabled = FALSE
    /\ starIcon = FALSE
    /\ pinnedList = << >>
    /\ recentList = << >>
    /\ inflight = {}
    /\ calls = << >>
    /\ toast = None
    /\ initPc = "ready"
    /\ nextConv = 0
    /\ now = 0
    /\ steps = 0
    /\ horizon = MaxFormatSteps
    /\ lastSave = None
    /\ deleted = {}
    /\ auth = SignedIn
    /\ kept = NoRaw
    /\ lastOp = "load"

SpecFormat == InitFormat /\ [][NextFormat]_vars

\* ------------------------------------------------------------------------
\* Properties
\* ------------------------------------------------------------------------
ConvRequired == {"id", "title", "messages", "created_at", "updated_at", "starred"}
MsgRequired == {"role", "content", "timestamp"}

\* Equality of two objects as the program can observe it: a key that is
\* missing and a key whose value is undefined read the same.
SameFields(a, b, required, optional) ==
    /\ \A f \in required : f \in DOMAIN a /\ f \in DOMAIN b /\ a[f] = b[f]
    /\ \A f \in optional : Get(a, f) = Get(b, f)

SameMessage(a, b) == SameFields(a, b, MsgRequired, MsgOptional)

SameConversation(a, b) ==
    /\ SameFields(a, b, ConvRequired \ {"messages"}, ConvOptional)
    /\ Len(a.messages) = Len(b.messages)
    /\ \A i \in 1..Len(a.messages) : SameMessage(a.messages[i], b.messages[i])

NoDuplicateIds(convs) ==
    \A i, j \in 1..Len(convs) : convs[i].id = convs[j].id => i = j

IsPrefix(a, b) ==
    /\ Len(a) <= Len(b)
    /\ \A i \in 1..Len(a) : a[i] = b[i]

\* C1: whatever saves and deletes have run, no two entries of the stored list
\* share an id, and a save of an id that is already stored leaves the number
\* of entries unchanged.
C1_UniqueIds ==
    [][ /\ NoDuplicateIds(store')
        /\ (lastSave' # None /\ FindIndex(store, lastSave'[1].conversation.id) # 0)
              => Len(store') = Len(store) ]_vars

C1_Witness ==
    /\ lastSave # None
    /\ lastSave[1].index # 0
    /\ Len(store) >= 1

\* C2: right after saveConversation(c), looking up c.id in the stored list
\* yields an entry with the same fields as c, message sequence included.
C2_RoundTrip ==
    lastSave # None =>
        /\ Find(store, lastSave[1].conversation.id) # None
        /\ SameConversation(Find(store, lastSave[1].conversation.id)[1],
                            lastSave[1].conversation)

C2_Witness ==
    /\ lastSave # None
    /\ Len(lastSave[1].conversation.messages) = 2
    /\ lastSave[1].conversation.messages[2].confidence # None
    /\ Get(lastSave[1].conversation, "lastMessage") # None

\* C3: a save of a stored id keeps that entry at its index and leaves every
\* other entry as it was; a save of a new id puts it at the front, followed
\* by the previous entries in their previous order.
C3_SavePosition ==
    [][ lastSave' # None =>
          LET id == lastSave'[1].conversation.id
              index == FindIndex(store, id)
          IN  IF index # 0
              THEN /\ Len(store') = Len(store)
                   /\ store'[index].id = id
                   /\ \A j \in 1..Len(store) : j # index => store'[j] = store[j]
              ELSE /\ Len(store') = Len(store) + 1
                   /\ store'[1].id = id
                   /\ \A j \in 1..Len(store) : store'[j + 1] = store[j] ]_vars

C3_Witness ==
    /\ lastSave # None
    /\ lastSave[1].index = 0
    /\ Len(store) = 2
    /\ store[1].id = lastSave[1].conversation.id

\* C4 as stated: right after any save, the saved conversation is the first
\* element of the stored list.
C4_SavedIsFirst ==
    [][ lastSave' # None => store'[1].id = lastSave'[1].conversation.id ]_vars

\* C4 amended: the stored list is ordered by first save; a save of a new id
\* puts it first, a save of a stored id leaves it at the index it had.
C4_FirstSaveOrder ==
    [][ lastSave' # None =>
          LET id == lastSave'[1].conversation.id
          IN  IF FindIndex(store, id) = 0
              THEN FindIndex(store', id) = 1
              ELSE FindIndex(store', id) = FindIndex(store, id) ]_vars

C4_Witness ==
    /\ lastSave # None
    /\ lastSave[1].index = 2
    /\ store[2].id = lastSave[1].conversation.id

\* The request settled by a reply or error step.
Settled == inflight \ inflight'

\* The first TitleLimit characters of a text, followed by three dots exactly
\* when the text is longer.
ExpectedTitle(text) ==
    IF Len(text) <= TitleLimit
    THEN text
    ELSE [i \in 1..(TitleLimit + 3) |-> IF i <= TitleLimit THEN text[i] ELSE "."]

C6_TitleWrittenOnce ==
    [][ \A i \in 1..Len(store), j \in 1..Len(store') :
          (store[i].id = store'[j].id /\ store[i].title # DefaultTitle)
              => store'[j].title = store[i].title ]_vars

\* C7: for each conversation, the messages seen earlier (in the buffer and in
\* the store) are a prefix of the messages seen later.
C7_AppendOnly ==
    [][ /\ ( /\ currentConversation # None
             /\ currentConversation' # None
             /\ currentConversation[1].id = currentConversation'[1].id )
           => IsPrefix(messages, messages')
        /\ \A i \in 1..Len(store), j \in 1..Len(store') :
              store[i].id = store'[j].id
                  => IsPrefix(store[i].messages, store'[j].messages) ]_vars

\* C8: all gateway chat calls made for turns of one conversation carry the
\* same session id.
C8_SessionStable ==
    \A i, j \in 1..Len(calls) :
        (calls[i].conv # 0 /\ calls[i].conv = calls[j].conv)
            => calls[i].session_id = calls[j].session_id

\* C9: a send of a text that is empty after trimming or longer than the
\* maximum length appends no message, makes no gateway call and leaves the
\* store untouched.
C9_InvalidRejected ==
    [][ ( /\ lastOp' \in {"enter", "click"}
          /\ (Trim(inputValue) = << >> \/ Len(Trim(inputValue)) > MAX_MESSAGE_LENGTH) )
        => /\ messages' = messages
           /\ calls' = calls
           /\ inflight' = inflight
           /\ store' = store ]_vars

\* C10: when the gateway call of a turn fails, the buffer keeps its messages
\* (the user message is not rolled back, no assistant message is added), an
\* error toast is shown, the typing flag is cleared, nothing is stored and no
\* further gateway call is made.
C10_FailureKeepsUserMessage ==
    [][ lastOp' = "error" =>
          /\ messages' = messages
          /\ currentConversation' = currentConversation
          /\ store' = store
          /\ toast' = Some("error")
          /\ ~isTyping'
          /\ calls' = calls
          /\ inflight' \subseteq inflight
          /\ Cardinality(inflight') = Cardinality(inflight) - 1 ]_vars

C10_Witness ==
    /\ lastOp = "error"
    /\ inflight = {}
    /\ Len(calls) = 1
    /\ messages # << >>
    /\ messages[Len(messages)].role = "user"
    /\ messages[Len(messages)].content = calls[1].message

\* C11: at most one gateway chat request is outstanding, and a send attempted
\* while a request is outstanding appends no message and makes no call.
C11_OneOutstanding ==
    [][ /\ Cardinality(inflight') <= 1
        /\ (lastOp' \in {"enter", "click", "prompt"} /\ inflight # {})
              => (messages' = messages /\ calls' = calls) ]_vars

\* C12: the reply to a turn started in a conversation is never cancelled: it
\* saves a conversation with a refreshed updated_at whose messages are the
\* buffer, ending with the assistant message when the reply has text; and
\* the conversation it updates is the one the turn was started in, also when
\* another conversation is displayed by then.
C12_ReplyUpdatesItsConversation ==
    [][ lastOp' = "reply" =>
          \A r \in Settled : calls[r].conv # 0 =>
             /\ lastSave' # None
             /\ lastSave'[1].conversation.updated_at = now
             /\ lastSave'[1].conversation.messages = messages'
             /\ messages' # messages => messages'[Len(messages')].role = "ai"
             /\ lastSave'[1].conversation.id = calls[r].conv ]_vars

\* The part of C12 that does not depend on which conversation is updated.
C12_ReplyNeverCancelled ==
    [][ lastOp' = "reply" =>
          \A r \in Settled : calls[r].conv # 0 =>
             /\ lastSave' # None
             /\ lastSave'[1].conversation.updated_at = now
             /\ lastSave'[1].conversation.messages = messages'
             /\ messages' # messages => messages'[Len(messages')].role = "ai" ]_vars

\* C13: a load of an id that is not stored changes neither the active
\* conversation, nor the buffer, nor the session id, nor the store.
C13_LoadMissingIsNoOp ==
    [][ \A id \in ConvIds :
          ((ClickConversation(id) \/ HealthOk(id)) /\ Find(store, id) = None)
              => UNCHANGED << currentConversation, aliased, messages, sessionId, store >> ]_vars

C13_Witness ==
    /\ lastOp = "healthOk"
    /\ currentConversation = None
    /\ messages # << >>
    /\ store = << >>

\* C14: a load of a stored id makes the stored conversation the active one
\* and the buffer equal to the stored message sequence.
C14_LoadRestoresMessages ==
    [][ \A id \in ConvIds :
          ((ClickConversation(id) \/ HealthOk(id)) /\ Find(store, id) # None)
              => /\ currentConversation' # None
                 /\ currentConversation'[1].id = id
                 /\ messages' = Find(store, id)[1].messages ]_vars

\* The indices of the pinned and of the other entries of a stored list, and
\* the position of an index within such a set.
PinnedAt(convs) == {i \in 1..Len(convs) : TruthyFlag(Get(convs[i], "pinned"))}
OthersAt(convs) == (1..Len(convs)) \ PinnedAt(convs)
RankIn(set, i) == Cardinality({j \in set : j <= i})

\* ids lists exactly the first limit entries of convs whose index is in set,
\* in the order of convs.
ListsInOrder(ids, convs, set, limit) ==
    /\ Len(ids) = Min(limit, Cardinality(set))
    /\ \A i \in set : RankIn(set, i) <= limit => ids[RankIn(set, i)] = convs[i].id

\* C15: whenever the lists are refreshed, the pinned list is all pinned
\* conversations in store order, the recent list is the first 15 non-pinned
\* conversations in store order; no id is in both and recent has at most 15.
C15_Partition ==
    [][ (lastOp' \in {"healthOk", "reply", "delete"} \/ (lastOp' = "pin" /\ lastSave' # None))
        => /\ ListsInOrder(pinnedList', store', PinnedAt(store'), Len(store'))
           /\ ListsInOrder(recentList', store', OthersAt(store'), RecentLimit)
           /\ Range(pinnedList') \cap Range(recentList') = {}
           /\ Len(recentList') <= RecentLimit ]_vars

C15_Witness ==
    /\ lastOp = "pin"
    /\ Len(pinnedList) = 1
    /\ Len(recentList) = RecentLimit
    /\ Cardinality(OthersAt(store)) > RecentLimit
    /\ \E i \in 1..Len(store) : store[i].id = pinnedList[1] /\ i > 1

\* after is before without its entries of the given id, the others in their
\* order.
RemovedFrom(before, after, id) ==
    LET keep == {i \in 1..Len(before) : before[i].id # id}
    IN  /\ Len(after) = Cardinality(keep)
        /\ \A i \in keep : after[RankIn(keep, i)] = before[i]

\* C16: a delete removes the entry with the given id and leaves the other
\* entries and their order unchanged; for an id that is not stored, and when
\* repeated, it leaves the stored list as it is.
C16_DeleteRemovesOne ==
    [][ /\ lastOp' = "delete" =>
              \A id \in deleted' \ deleted : RemovedFrom(store, store', id)
        /\ \A id \in deleted' \cup {MaxListConvs} :
              LET once == DeleteConversation(store', id)
              IN  /\ RemovedFrom(store', once, id)
                  /\ DeleteConversation(once, id) = once
                  /\ Find(store', id) = None => once = store' ]_vars

C16_Witness ==
    /\ lastOp = "delete"
    /\ Len(store) = MaxListConvs - 2
    /\ store[1].id = MaxListConvs
    /\ store[Len(store)].id = 1

\* C17: once deleteConversation has run for an id, no entry with that id is
\* in the stored list again.
C17_DeletedStaysDeleted ==
    \A id \in deleted : Find(store, id) = None

\* C18: an entry leaves the stored list only in a step that deletes its id.
C18_OnlyDeleteRemoves ==
    [][ \A i \in 1..Len(store) :
          Find(store', store[i].id) = None => ClickDelete(store[i].id) ]_vars

\* The part of C19 that does not depend on which conversation a reply
\* updates: a reply stamps the conversation it saves with the current time,
\* no other step changes the updated_at of a stored or active conversation,
\* and no updated_at ever decreases.
C19_StampOnlyByReply ==
    [][ /\ lastOp' = "reply" =>
              (lastSave' # None /\ lastSave'[1].conversation.updated_at = now')
        /\ \A i \in 1..Len(store), j \in 1..Len(store') :
              store[i].id = store'[j].id =>
                 /\ store'[j].updated_at >= store[i].updated_at
                 /\ lastOp' # "reply" => store'[j].updated_at = store[i].updated_at
        /\ ( /\ currentConversation # None
             /\ currentConversation' # None
             /\ currentConversation[1].id = currentConversation'[1].id )
           => /\ currentConversation'[1].updated_at >= currentConversation[1].updated_at
              /\ lastOp' # "reply" =>
                    currentConversation'[1].updated_at = currentConversation[1].updated_at ]_vars

\* C19: every successful turn of a conversation refreshes that conversation's
\* updated_at to the time of the reply, no other operation changes an
\* updated_at, and no updated_at ever decreases.
C19_UpdatedAtRefreshed ==
    [][ /\ lastOp' = "reply" =>
              \A r \in Settled : calls[r].conv # 0 =>
                 /\ Find(store', calls[r].conv) # None
                 /\ Find(store', calls[r].conv)[1].updated_at = now'
        /\ \A i \in 1..Len(store), j \in 1..Len(store') :
              store[i].id = store'[j].id =>
                 /\ store'[j].updated_at >= store[i].updated_at
                 /\ lastOp' # "reply" => store'[j].updated_at = store[i].updated_at ]_vars

\* C20: starting a new conversation activates an empty conversation with an
\* id that is neither stored nor the previous active one, empties the buffer
\* and leaves the store as it is; and an id enters the stored list only in a
\* step that completes a turn.
C20_NewIsNotStored ==
    [][ /\ (NewChat \/ HealthOk(0)) =>
              /\ currentConversation' # None
              /\ currentConversation'[1].messages = << >>
              /\ Find(store, currentConversation'[1].id) = None
              /\ currentConversation # None =>
                    currentConversation'[1].id # currentConversation[1].id
              /\ messages' = << >>
              /\ store' = store
        /\ \A j \in 1..Len(store') :
              Find(store, store'[j].id) = None => lastOp' = "reply" ]_vars

\* The expiry claim, in seconds, of a stored three-segment token whose
\* payload decodes to an object (None when it has none).
StoredExpiry(a) == a.token[1][2].payload.exp

WellFormed(a) ==
    /\ a.token # None
    /\ Len(a.token[1]) = 3
    /\ a.token[1][2].enc = "base64"
    /\ a.token[1][2].json = "object"

\* No token, no guest flag, no user: the session is Unauthenticated.
Unauthenticated(a) ==
    /\ a.token = None
    /\ ~a.guest
    /\ GetCurrentUser(a) = None
    /\ ~IsAuthenticated(a)

\* C21: when the stored token's expiry is strictly before the current time,
\* loadUser leaves the session without token, guest flag and user, before
\* the route guard has run and without any update of the sidebar.
C21_ExpiredCleared ==
    [][ ( /\ AuthLoadUser
          /\ WellFormed(auth)
          /\ StoredExpiry(auth) # None
          /\ StoredExpiry(auth)[1] * 1000 < now )
        => /\ Unauthenticated(auth')
           /\ auth'.guard = None
           /\ auth'.shown = auth.shown ]_vars

\* C21 for tokens whose expiry is not zero.
C21_NonZeroExpiredCleared ==
    [][ ( /\ AuthLoadUser
          /\ WellFormed(auth)
          /\ StoredExpiry(auth) # None
          /\ StoredExpiry(auth)[1] # 0
          /\ StoredExpiry(auth)[1] * 1000 < now )
        => /\ Unauthenticated(auth')
           /\ auth'.guard = None
           /\ auth'.shown = auth.shown ]_vars

\* The second segment of the stored token decodes to an object: atob and
\* JSON.parse succeed on it and its properties can be read.
PayloadReadable(a) ==
    /\ Len(a.token[1]) >= 2
    /\ a.token[1][2].enc = "base64"
    /\ a.token[1][2].json = "object"

\* C22: when the stored token cannot be decoded (it has not exactly three
\* segments, or its payload segment is not base64 of a JSON object),
\* loadUser removes the token and the guest flag and sets no user.
C22_UndecodableCleared ==
    [][ ( /\ AuthLoadUser
          /\ auth.token # None
          /\ (Len(auth.token[1]) # 3 \/ ~PayloadReadable(auth)) )
        => Unauthenticated(auth') ]_vars

\* C22 without the count of segments: a payload segment that atob or
\* JSON.parse rejects, or that is missing.
C22_UnreadablePayloadCleared ==
    [][ ( /\ AuthLoadUser
          /\ auth.token # None
          /\ ~PayloadReadable(auth) )
        => Unauthenticated(auth') ]_vars

\* C23: at every page entry the route guard sends a session without token
\* and guest flag from any other view to the auth view, sends a guest or an
\* authenticated session from the auth view to the application, and in every
\* other case asks for no redirect and returns true.
C23_RouteGuard ==
    [][ AuthCheckAuth =>
          LET toAuth == auth.token = None /\ ~auth.guest /\ auth.view # "auth"
              toApp  == /\ (auth.token = None /\ auth.guest) \/ IsAuthenticated(auth)
                        /\ auth.view = "auth"
          IN  /\ toAuth => (auth'.href = Some("/auth.html") /\ auth'.guard = Some(FALSE))
              /\ toApp => (auth'.href = Some("/") /\ auth'.guard = Some(FALSE))
              /\ (~toAuth /\ ~toApp) => (auth'.href = auth.href /\ auth'.guard = Some(TRUE)) ]_vars

C23_Witness ==
    /\ lastOp = "checkAuth"
    /\ auth.token = None
    /\ auth.guest
    /\ auth.view = "auth"
    /\ auth.href = Some("/")
    /\ auth.guard = Some(FALSE)

\* The conversations of the object elements of the item, in order.
Readable(item) == IF item.kind = "array" THEN Objects(item.entries) ELSE << >>

\* C24: whatever the conversations item holds, getConversations,
\* saveConversation, loadConversation and loadConversationsList complete
\* without an error, and a list load renders the readable conversations.
C24_MalformedTolerated ==
    [][ (\/ CallGetConversations
         \/ \E id \in RawIds : CallSaveConversation(id)
         \/ \E id \in RawIds : CallLoadConversation(id)
         \/ CallLoadConversationsList)
        => /\ kept'.failure = None
           /\ lastOp' = "loadConversationsList"
                => Range(pinnedList') \cup Range(recentList') = Range(Ids(Readable(kept.item))) ]_vars

\* C24, for an item that is absent or the JSON of an array of objects: the
\* four operations complete without an error, also on a conversation that
\* has no messages key.
C24_ArrayOfObjectsTolerated ==
    [][ ( /\ kept.item.kind \in {"absent", "array"}
          /\ \A i \in 1..Len(kept.item.entries) : ~IsNull(kept.item.entries[i])
          /\ \/ CallGetConversations
             \/ \E id \in RawIds : CallSaveConversation(id)
             \/ \E id \in RawIds : CallLoadConversation(id)
             \/ CallLoadConversationsList )
        => /\ kept'.failure = None
           /\ lastOp' = "loadConversationsList"
                => Range(pinnedList') \cup Range(recentList') = Range(Ids(Readable(kept.item))) ]_vars

\* The reply of the first turn of a conversation that is still the active
\* one and not yet stored: request r was sent with the text from an empty
\* buffer of that conversation and is answered with a text.
FirstTurnReply(r, body, text) ==
    /\ r \in inflight
    /\ Len(messages) = 1
    /\ GatewaySuccess(r, body)
    /\ Truthy(body.response)
    /\ currentConversation # None
    /\ calls[r].message = text
    /\ messages = << [role |-> "user", content |-> text, timestamp |-> messages[1].timestamp] >>
    /\ currentConversation[1].title = DefaultTitle
    /\ FindIndex(store, currentConversation[1].id) = 0

\* C25: a new conversation is started, "5+5" is sent and the reply arrives:
\* the stored conversation has the title "5+5", an updated_at strictly
\* greater than its created_at, and is the first of the stored list.
C25_FirstTurnStored ==
    [][ \A r \in 1..MaxSends, body \in Responses :
          FirstTurnReply(r, body, TShort)
          => /\ store'[1].id = currentConversation[1].id
             /\ store'[1].title = TShort
             /\ store'[1].updated_at > store'[1].created_at ]_vars

\* C25, amended: the stored conversation has the title "5+5", is the first
\* of the stored list, and its updated_at is the time of the reply: never
\* less than created_at, and strictly greater when the clock has advanced
\* since the conversation was started.
C25_FirstTurnStoredInTime ==
    [][ \A r \in 1..MaxSends, body \in Responses :
          FirstTurnReply(r, body, TShort)
          => /\ store'[1].id = currentConversation[1].id
             /\ store'[1].title = TShort
             /\ store'[1].created_at = currentConversation[1].created_at
             /\ store'[1].updated_at = now
             /\ store'[1].updated_at >= store'[1].created_at
             /\ now > currentConversation[1].created_at
                  => store'[1].updated_at > store'[1].created_at ]_vars

C25_Witness ==
    /\ lastOp = "reply"
    /\ Len(store) = 2
    /\ store[1].title = TShort
    /\ Len(store[1].messages) = 2
    /\ store[1].updated_at > store[1].created_at
    /\ currentConversation = Some(store[1])

\* A text without markdown syntax.
Plain(text) == \A i \in 1..Len(text) : text[i] \notin {Backquote, "*"}

\* The text with a break marker for each of its line breaks.
BreakLines(text) == [i \in 1..Len(text) |-> IF text[i] = "\n" THEN "<br>" ELSE text[i]]

Amp == << "&", "a", "m", "p", ";" >>
Lt == << "&", "l", "t", ";" >>
Gt == << "&", "g", "t", ";" >>

\* The text an HTML parser reads from markup: character references
\* resolved, everything else as it stands.
RECURSIVE DecodeFrom(_, _)
DecodeFrom(html, i) ==
    IF i > Len(html) THEN << >>
    ELSE IF IsAt(html, i, Amp) THEN << "&" >> \o DecodeFrom(html, i + Len(Amp))
    ELSE IF IsAt(html, i, Lt) THEN << "<" >> \o DecodeFrom(html, i + Len(Lt))
    ELSE IF IsAt(html, i, Gt) THEN << ">" >> \o DecodeFrom(html, i + Len(Gt))
    ELSE << html[i] >> \o DecodeFrom(html, i + 1)

Decode(html) == DecodeFrom(html, 1)

\* Number of the indices of s that hold an element of set.
CountIn(s, set) == Cardinality({i \in 1..Len(s) : s[i] \in set})

FenceStart(text) == FirstAt(text, 1, Fence)
FenceLine(text) == FenceStart(text) + 3 + WordRun(text, FenceStart(text) + 3)
FenceClose(text) == FirstAt(text, FenceLine(text) + 1, Fence)
IsFenced(text) ==
    /\ FenceStart(text) # 0
    /\ FenceLine(text) <= Len(text)
    /\ text[FenceLine(text)] = "\n"
    /\ FenceClose(text) # 0
    /\ Plain(SubSeq(text, FenceClose(text) + 3, Len(text)))
FencePre(text) == SubSeq(text, 1, FenceStart(text) - 1)
FenceLang(text) == SubSeq(text, FenceStart(text) + 3, FenceLine(text) - 1)
FenceInner(text) == SubSeq(text, FenceLine(text) + 1, FenceClose(text) - 1)
FencePost(text) == SubSeq(text, FenceClose(text) + 3, Len(text))

\* The markup of one code block with the given language and code, the code
\* standing in it as it is.
BlockWith(lang, code) ==
    << "<br>", "<div class='code-block'>",
       "<br>", "<div class='code-header'>",
       "<br>", "<span class='code-language'>" >> \o lang \o << "</span>",
       "<br>", "<button class='code-copy-btn'>", "C", "o", "p", "y", "</button>",
       "<br>", "</div>",
       "<br>", "<div class='code-content'>", "<code>" >> \o code \o << "</code>", "</div>",
       "<br>", "</div>",
       "<br>" >>

ExpectedBlock(text) ==
    BreakLines(EscapeHtml(FencePre(text)))
    \o BlockWith(IF FenceLang(text) = << >> THEN << "c", "o", "d", "e" >> ELSE FenceLang(text),
                 Trim(EscapeHtml(FenceInner(text))))
    \o BreakLines(EscapeHtml(FencePost(text)))

\* C27: a fenced code block becomes one code block whose language is the
\* token, or "code" without one, and whose code is the trimmed, escaped inner
\* text as it stands: no later stage alters the text inside the block.
C27_CodePreserved ==
    (element.role # "none" /\ IsFenced(element.content))
        => element.html = ExpectedBlock(element.content)

\* C27, for an inner text that holds, trimmed, no backtick, no asterisk and
\* no line break: the code of the block is the trimmed, escaped inner text.
C27_PlainCodePreserved ==
    ( /\ element.role # "none"
      /\ IsFenced(element.content)
      /\ Plain(FenceInner(element.content))
      /\ "\n" \notin Range(Trim(FenceInner(element.content))) )
        => element.html = ExpectedBlock(element.content)

\* C28: no <, > or & of the raw text stands unescaped in the output: the
\* output holds no < and no > outside the formatter's tags, each & of it
\* begins the character reference of one &, < or > of the raw text.
C28_MarkupEscaped ==
    element.role # "none"
        => /\ \A i \in 1..Len(element.html) :
                /\ element.html[i] \notin {"<", ">"}
                /\ element.html[i] = "&"
                     => \/ IsAt(element.html, i, Amp)
                        \/ IsAt(element.html, i, Lt)
                        \/ IsAt(element.html, i, Gt)
           /\ CountIn(element.html, {"&"}) = CountIn(element.content, {"&", "<", ">"})

C28_Witness ==
    /\ element.role = "ai"
    /\ element.content = << "*", "<", "*" >>
    /\ element.html = << "<em>" >> \o Lt \o << "</em>" >>

\* C29: a message with role user is never passed through formatMessage,
\* neither when it is sent nor when a stored conversation is loaded.
C29_UserNotFormatted ==
    element.role = "user" => element.argument = None

\* The text is the run between two marks, after pre and before post.
Middle(text, pre, mark, post) ==
    SubSeq(text, Len(pre) + Len(mark) + 1, Len(text) - Len(post) - Len(mark))
IsDelimited(text, pre, mark, post) ==
    /\ Len(text) > Len(pre) + 2 * Len(mark) + Len(post)
    /\ text = Delimited(pre, mark, Middle(text, pre, mark, post), post)
    /\ Plain(Middle(text, pre, mark, post))

\* C30: a run without asterisk between double asterisks becomes one bold
\* node, with no italic node in it or around it, and a run without asterisk
\* between single asterisks becomes one italic node.
C30_BoldBeforeItalic ==
    \A pre \in Around, post \in Around :
        /\ (element.role # "none" /\ IsDelimited(element.content, pre, << "*", "*" >>, post))
            => element.html =
                 BreakLines(EscapeHtml(pre)) \o << "<strong>" >>
                 \o BreakLines(EscapeHtml(Middle(element.content, pre, << "*", "*" >>, post)))
                 \o << "</strong>" >> \o BreakLines(EscapeHtml(post))
        /\ (element.role # "none" /\ IsDelimited(element.content, pre, << "*" >>, post))
            => element.html =
                 BreakLines(EscapeHtml(pre)) \o << "<em>" >>
                 \o BreakLines(EscapeHtml(Middle(element.content, pre, << "*" >>, post)))
                 \o << "</em>" >> \o BreakLines(EscapeHtml(post))

C30_Witness ==
    /\ element.role = "ai"
    /\ element.content = << "a", "*", "*", "<", "a", "*", "*" >>
    /\ element.html = << "a", "<strong>" >> \o Lt \o << "a", "</strong>" >>

\* C31: the typing flag is true exactly while a gateway chat request is
\* outstanding, and after every turn settles, by a reply or by a failure,
\* the flag is false.
C31_TypingWhileOutstanding ==
    [][ /\ isTyping' <=> (inflight' # {})
        /\ lastOp' \in {"reply", "error"} => ~isTyping' ]_vars

\* C31, the part that does not depend on a single outstanding request: the
\* flag is set only while a request is outstanding, a send sets it, and
\* every settling turn clears it.
C31_SettledIsIdle ==
    [][ /\ isTyping' => (inflight' # {})
        /\ (inflight' # inflight /\ inflight \subseteq inflight') => isTyping'
        /\ lastOp' \in {"reply", "error"} => ~isTyping' ]_vars

\* The id of the active conversation; 0 when there is none.
ActiveId(cc) == IF cc = None THEN 0 ELSE cc[1].id

\* C32: the id of a conversation never changes.  The stored ids change only
\* by a new id put in front or by ids taken out, and the active conversation
\* gets another id only when startNewConversation creates it with a fresh id
\* or loadConversation finds it in the store.
C32_IdImmutable ==
    [][ /\ \/ Ids(store') = Ids(store)
           \/ /\ Ids(store') = << ActiveId(currentConversation') >> \o Ids(store)
              /\ FindIndex(store, ActiveId(currentConversation')) = 0
           \/ \E id \in Range(Ids(store)) :
                 Ids(store') = SelectSeq(Ids(store), LAMBDA i : i # id)
           \/ lastOp' = "logout" /\ store' = << >>
        /\ (currentConversation' # None
              /\ ActiveId(currentConversation') # ActiveId(currentConversation))
             => \/ /\ nextConv' = nextConv + 1
                   /\ ActiveId(currentConversation') = nextConv'
                   /\ lastOp' \in {"new", "healthOk", "reply"}
                   /\ lastOp' = "reply" => currentConversation = None
                \/ /\ FindIndex(store, ActiveId(currentConversation')) # 0
                   /\ lastOp' \in {"open", "healthOk"} ]_vars

C32_Witness ==
    /\ lastOp = "reply"
    /\ Len(store) = 2
    /\ store[2].id = 1
    /\ store[1].id = 2
    /\ ActiveId(currentConversation) = 2
    /\ Len(store[1].messages) = 2

\* ---------------------------------------------------------------------------
\* C33: a pin is durable across turns. A stored conversation that is pinned
\* stays pinned on every step that keeps it in the store, unless the step is
\* pinConversation called on that id; in particular a successful turn in it
\* or a star toggle on it while it is active does not unpin it.
IsPinned(s, id) ==
    /\ FindIndex(s, id) # 0
    /\ TruthyFlag(Get(s[FindIndex(s, id)], "pinned"))

C33_PinDurable ==
    [][ \A id \in ConvIds :
           (IsPinned(store, id) /\ FindIndex(store', id) # 0 /\ lastOp' # "pin")
              => IsPinned(store', id) ]_vars

\* what does hold: a pin survives every step whose saved object is not a stale
\* in-memory copy, that is every step but a reply or star toggle of a
\* conversation that was pinned while it was the active one
C33_PinKeptElsewhere ==
    [][ \A id \in ConvIds :
           (IsPinned(store, id) /\ FindIndex(store', id) # 0
              /\ lastOp' \notin {"pin", "reply", "star"})
              => IsPinned(store', id) ]_vars

\* ---------------------------------------------------------------------------
\* C34: a turn that succeeds with a non-empty reply is persisted. After the
\* reply the stored entry of the active conversation has messages that end
\* with the user message of that turn followed by the assistant reply,
\* also when no conversation was active when the reply arrived.
EndsWithTurn(msgs, userMessage, aiResponse) ==
    /\ Len(msgs) >= 2
    /\ msgs[Len(msgs) - 1].role = "user"
    /\ msgs[Len(msgs) - 1].content = userMessage
    /\ msgs[Len(msgs)].role = "ai"
    /\ msgs[Len(msgs)].content = aiResponse

PersistedTurn(r, body) ==
    /\ FindIndex(store', ActiveId(currentConversation')) # 0
    /\ EndsWithTurn(store'[FindIndex(store', ActiveId(currentConversation'))].messages,
                    calls[r].message, body.response[1])

C34_TurnPersisted ==
    [][ \A r \in inflight, body \in Responses :
           (Truthy(body.response) /\ GatewaySuccess(r, body)) => PersistedTurn(r, body) ]_vars

\* what does hold: the turn is persisted when a conversation is active at
\* reply time and the user message of the turn is still the last message of
\* the buffer
C34_TurnPersistedWhenActive ==
    [][ \A r \in inflight, body \in Responses :
           (/\ Truthy(body.response)
            /\ currentConversation # None
            /\ Len(messages) > 0
            /\ messages[Len(messages)].role = "user"
            /\ messages[Len(messages)].content = calls[r].message
            /\ GatewaySuccess(r, body)) => PersistedTurn(r, body) ]_vars

\* ---------------------------------------------------------------------------
\* C35: no cross-conversation contamination. The assistant message that a
\* reply puts into the store is stored under the id of the conversation that
\* was active when its turn was started, whatever was sent, answered, created
\* or loaded in between.
C35_NoContamination ==
    [][ lastOp' = "reply" =>
          \A r \in Settled :
             (/\ calls[r].conv # 0
              /\ lastSave' # None
              /\ Len(messages') = Len(messages) + 1
              /\ messages'[Len(messages')].role = "ai")
                => \A i \in 1..Len(store') :
                      (/\ store'[i].messages # << >>
                       /\ store'[i].messages[Len(store'[i].messages)] = messages'[Len(messages')]
                       /\ FindIndex(store, store'[i].id) # 0 =>
                              store[FindIndex(store, store'[i].id)].messages # store'[i].messages)
                         => store'[i].id = calls[r].conv ]_vars

\* what does hold: every user message in the store is the message of a call
\* made while the conversation it is stored under was active (or while none
\* was)
C35_UserMessagesStay ==
    \A i \in 1..Len(store) : \A k \in 1..Len(store[i].messages) :
       store[i].messages[k].role = "user" =>
          \E r \in 1..Len(calls) :
             /\ calls[r].message = store[i].messages[k].content
             /\ calls[r].conv \in {0, store[i].id}

\* ---------------------------------------------------------------------------
\* C36: a failed turn leaves the persisted store unchanged (saveConversation
\* is not called, the buffer keeps the user message), and the messages
\* retained in the buffer reach the store only with a later successful turn:
\* the step after a failure, unless it is a reply, leaves the messages of
\* every stored conversation as they were and stores no message with a new
\* conversation.
StoredMessagesKept ==
    \A i \in 1..Len(store') :
       IF FindIndex(store, store'[i].id) = 0
       THEN store'[i].messages = << >>
       ELSE store'[i].messages = store[FindIndex(store, store'[i].id)].messages

C36_FailedTurnNotStored ==
    [][ /\ lastOp' = "error" => (store' = store /\ lastSave' = None /\ messages' = messages)
        /\ (lastOp = "error" /\ lastOp' # "reply") => StoredMessagesKept ]_vars

\* what does hold: the failure itself stores nothing, only a reply or a star
\* toggle stores the retained messages afterwards, and a later reply in an
\* active conversation stores the whole buffer
C36_FailedTurnStoredBySave ==
    [][ /\ lastOp' = "error" => (store' = store /\ lastSave' = None /\ messages' = messages)
        /\ (lastOp = "error" /\ lastOp' \notin {"reply", "star"}) => StoredMessagesKept
        /\ (lastOp = "error" /\ lastOp' = "reply" /\ currentConversation # None)
              => /\ IsPrefix(messages, messages')
                 /\ lastSave' # None
                 /\ lastSave'[1].conversation.messages = messages' ]_vars

\* ---------------------------------------------------------------------------
\* C37: a gateway success whose reply text is empty or missing appends no
\* assistant message and still runs the post-turn update: the buffer is as it
\* was, and the conversation is saved with that buffer as messages, with a
\* refreshed updated_at and with lastMessage overwritten by the (empty or
\* missing) reply text.
EmptyReplyUpdate(r, body) ==
    /\ messages' = messages
    /\ lastSave' # None
    /\ lastSave'[1].conversation.messages = messages
    /\ lastSave'[1].conversation.updated_at = now
    /\ Get(lastSave'[1].conversation, "lastMessage") = PreviewOf(body.response)
    /\ Get(currentConversation'[1], "lastMessage") = PreviewOf(body.response)
    /\ FindIndex(store', ActiveId(currentConversation')) # 0
    /\ SameConversation(store'[FindIndex(store', ActiveId(currentConversation'))],
                        lastSave'[1].conversation)

C37_EmptyReplyStillUpdates ==
    [][ \A r \in inflight, body \in AllResponses :
           (~Truthy(body.response) /\ GatewaySuccess(r, body)) => EmptyReplyUpdate(r, body) ]_vars

\* what does hold: the same with a conversation active when the reply arrives
C37_EmptyReplyWhenActive ==
    [][ \A r \in inflight, body \in AllResponses :
           (~Truthy(body.response) /\ currentConversation # None /\ GatewaySuccess(r, body))
              => EmptyReplyUpdate(r, body) ]_vars

\* ---------------------------------------------------------------------------
\* C38: toggleStar negates the starred flag of the active conversation and
\* persists it, whatever startNewConversation, loadConversation and
\* toggleStar calls came before: the flag of the conversation and of its
\* stored entry is the negation of the flag before the call, no other field
\* of the stored entry changes and no other entry changes.
StarredBefore ==
    IF FindIndex(store, ActiveId(currentConversation)) # 0
    THEN store[FindIndex(store, ActiveId(currentConversation))].starred
    ELSE currentConversation[1].starred

OtherEntriesKept(id) ==
    /\ SelectSeq(store', LAMBDA c : c.id # id) = SelectSeq(store, LAMBDA c : c.id # id)
    /\ FindIndex(store, id) # 0 =>
          /\ Len(store') = Len(store)
          /\ FindIndex(store', id) = FindIndex(store, id)
          /\ \A f \in (DOMAIN store[FindIndex(store, id)]) \ {"starred"} :
                /\ f \in DOMAIN store'[FindIndex(store', id)]
                /\ store'[FindIndex(store', id)][f] = store[FindIndex(store, id)][f]

C38_ToggleStarNegates ==
    [][ (lastOp' = "star" /\ currentConversation # None) =>
          /\ currentConversation'[1].starred = ~StarredBefore
          /\ FindIndex(store', ActiveId(currentConversation)) # 0
          /\ store'[FindIndex(store', ActiveId(currentConversation))].starred = ~StarredBefore
          /\ OtherEntriesKept(ActiveId(currentConversation)) ]_vars

\* what does hold: the flag that is stored is the negation of what the star
\* icon showed, and the other entries are kept
C38_ToggleStarFollowsIcon ==
    [][ (lastOp' = "star" /\ currentConversation # None) =>
          /\ starIcon' = ~starIcon
          /\ currentConversation'[1].starred = starIcon'
          /\ FindIndex(store', ActiveId(currentConversation)) # 0
          /\ store'[FindIndex(store', ActiveId(currentConversation))].starred = starIcon'
          /\ SelectSeq(store', LAMBDA c : c.id # ActiveId(currentConversation))
                = SelectSeq(store, LAMBDA c : c.id # ActiveId(currentConversation)) ]_vars

\* ---------------------------------------------------------------------------
\* C39: loadUser treats a decodable token as expired exactly when its payload
\* has an exp that is not zero and the current time in milliseconds is at
\* least exp * 1000 (the instant of expiry included, a token without exp
\* never); an expired token is removed, an unexpired one stays stored and
\* its payload becomes the user.
ExpiredByRule(a, t) ==
    /\ StoredExpiry(a) # None
    /\ StoredExpiry(a)[1] # 0
    /\ t >= StoredExpiry(a)[1] * 1000

C39_ExpiryRule ==
    [][ (AuthLoadUser /\ WellFormed(auth)) =>
          /\ ExpiredByRule(auth, now) <=> auth'.token = None
          /\ ExpiredByRule(auth, now) => auth'.user = None
          /\ ~ExpiredByRule(auth, now) =>
                /\ auth'.token = auth.token
                /\ auth'.user = Some([id |-> auth.token[1][2].payload.sub,
                                      exp |-> StoredExpiry(auth)]) ]_vars

\* a token one millisecond before its expiry was accepted
C39_Witness ==
    /\ lastOp = "loadUser"
    /\ now = 999
    /\ auth.token = Some(GoodToken(Some(1)))
    /\ auth.user = Some([id |-> Some(7), exp |-> Some(1)])

\* ---------------------------------------------------------------------------
\* C40: expiry or a decode failure overrides guest mode. When loadUser finds
\* the guest flag set and a stored token that is expired or whose payload
\* cannot be decoded, it clears the guest flag together with the token and
\* asks for the auth view: the session is Unauthenticated, not a guest's, and
\* the route guard that follows sends every other view to the auth view.
C40_FailureOverridesGuest ==
    [][ /\ ( /\ AuthLoadUser
             /\ auth.token # None
             /\ auth.guest
             /\ (~PayloadReadable(auth) \/ ExpiredByRule(auth, now)) )
           => /\ Unauthenticated(auth')
              /\ auth'.href = Some("/auth.html")
        /\ (AuthCheckAuth /\ auth.href = Some("/auth.html"))
           => /\ Unauthenticated(auth)
              /\ Unauthenticated(auth')
              /\ auth'.href = Some("/auth.html")
              /\ auth.view # "auth" => auth'.guard = Some(FALSE) ]_vars

\* the route guard has run after loadUser logged the session out
C40_Witness ==
    /\ lastOp = "checkAuth"
    /\ auth.view = "app"
    /\ auth.href = Some("/auth.html")
    /\ auth.guard = Some(FALSE)
    /\ auth.token = None
    /\ ~auth.guest
    /\ store = << >>

====
